---- MODULE Spec2Model ----
(***************************************************************************)
(* Verification model of the printshop scheduler's reservation core:       *)
(* the half-hour capacity query, signed slot offers, the booking and       *)
(* cancellation transactions of AvailabilityManager, the HTTP handlers     *)
(* that gate them on the credit balance, and the credit ledger trigger.    *)
(*                                                                         *)
(* Time is in milliseconds since the epoch (JavaScript Date.getTime()).    *)
(* The database is PostgreSQL at READ COMMITTED; a request is a process    *)
(* that takes one step per awaited database round trip.  A statement that  *)
(* writes is merged with the commit that follows it when nothing the       *)
(* transaction does in between can be observed by another request.         *)
(***************************************************************************)
EXTENDS Integers, Sequences, FiniteSets, TLC

VARIABLES
  now,         \* wall clock, ms
  unitActive,  \* units.active, by unit_id
  blackouts,   \* rows of table blackouts
  bookings,    \* rows of table bookings; booking_id is the position
  offers,      \* signed slot offers held by clients
  sent,        \* messages handed to the broadcast function, in order
  proc,        \* one record per request in flight
  creditTx,    \* rows of table credit_transactions
  balance,     \* credit_balances by user: NoRow, or the row's balance_cents
  lastCredit,  \* the last insert into credit_transactions and its outcome
  lastSeen,    \* riso_last_seen_totals by user: NoRow, or the row
  usages,      \* rows of table risograph_usages
  job,         \* one record per ledger insert or usage ingestion in flight
  reply,       \* the last answer of a read-only query, with its inputs
  wsThrows     \* which subscriber's socket.send throws (0: none)

vars == <<now, unitActive, blackouts, bookings, offers, sent, proc, creditTx, balance, lastCredit,
          lastSeen, usages, job, reply, wsThrows>>

(* ------------------------------ bounds --------------------------------- *)
MaxBookings == 2
NumRacers == 3
MaxCreditTx == 3
MaxUsages == 2
MaxSent == 3

(* --------------------------- program constants ------------------------- *)
BucketSecs == 1800
MsPerSec == 1000
ExpirySecs == 15 * 60
copyPriceCents == 10
stencilPriceCents == 150

BucketMs == BucketSecs * MsPerSec
ValidityMs == ExpirySecs * MsPerSec

\* the example database: two units, two users; two requests at a time,
\* and NumRacers requests at a time in the redemption race
Units == {1, 2}
Users == {1, 2}
Procs == {1, 2}
Racers == 1..NumRacers
AllProcs == Procs \cup Racers
\* the credit_balances row of a user: none, or one holding balance_cents
NoRow == <<>>
Row(cents) == <<cents>>
Cents(row) == row[1]

\* units.capacity: every unit has a positive capacity (the seed creates one
\* unit of capacity 10); unit u is given capacity u so that a capacity of
\* one and capacities above one are both present.
UnitCapacity(u) == u

\* instants requests may name: the bucket boundaries from the second
\* bucket of the epoch on, and the middle of the first of these buckets
TimePoints == { BucketMs, BucketMs + BucketMs \div 2, 2 * BucketMs }
BucketStarts == { g \in TimePoints : g % BucketMs = 0 /\ g + BucketMs \in TimePoints }

\* instants at which the clock is sampled: around one validity period
ClockSamples == { 0, MsPerSec - 1, ValidityMs, ValidityMs + MsPerSec - 1, 2 * ValidityMs }

\* periods an administrator blacks out: the first half of a bucket, or all of it
BlackoutPeriods ==
  { <<g, g + (BucketMs \div 2)>> : g \in BucketStarts } \cup { <<g, g + BucketMs>> : g \in BucketStarts }

\* a unit_id that names no row of units
NoUnit == 0

\* the ranges a custom booking names: every interval between two of the
\* instants, one empty range and one inverted range
CustomRanges ==
  { r \in TimePoints \X TimePoints : r[1] < r[2] }
    \cup { <<BucketMs, BucketMs>>, <<2 * BucketMs, BucketMs>> }

(* ------------------------------ ranges --------------------------------- *)
\* tstzrange '[lo, hi)'; a range with lo = hi is the empty range
IsEmptyRange(lo, hi) == lo = hi

\* the && operator of PostgreSQL on half-open ranges
Overlaps(lo1, hi1, lo2, hi2) ==
  /\ ~IsEmptyRange(lo1, hi1)
  /\ ~IsEmptyRange(lo2, hi2)
  /\ lo1 < hi2
  /\ lo2 < hi1

Contains(lo, hi, t) == lo <= t /\ t < hi

BookingIds == 1..Len(bookings)

(* --------------------------- capacity query ---------------------------- *)
\* aligned: floor(epoch / 1800) * 1800
AlignedStart(winStart) == (winStart \div BucketMs) * BucketMs

\* buckets: generate_series(aligned_start, win_end - 30 min, 30 min)
Buckets(winStart, winEnd) ==
  { AlignedStart(winStart) + k * BucketMs :
      k \in 0..((winEnd - BucketMs - AlignedStart(winStart)) \div BucketMs) }

\* usable buckets chosen without looking at the blackouts
Usable_anyBlackout(g, u) == unitActive[u]

\* usable_buckets: active unit, no blackout of the unit overlaps the bucket
Usable(g, u) ==
  /\ unitActive[u]
  /\ ~\E bo \in blackouts :
        bo.unit = u /\ Overlaps(bo.lo, bo.hi, g, g + BucketMs)

\* booking counts as they were when the table was empty
OverlapCount_none(g, u) == 0

\* booking counts joined on the bucket alone, whatever the unit
OverlapCount_anyUnit(g, u) ==
  Cardinality({ i \in BookingIds :
      /\ bookings[i].status = "confirmed"
      /\ Overlaps(bookings[i].lo, bookings[i].hi, g, g + BucketMs) })

\* booking_counts without its condition on the status
OverlapCount_anyStatus(g, u) ==
  Cardinality({ i \in BookingIds :
      /\ bookings[i].unit = u
      /\ Overlaps(bookings[i].lo, bookings[i].hi, g, g + BucketMs) })

\* booking_counts: confirmed bookings of the unit overlapping the bucket
OverlapCount(g, u) ==
  Cardinality({ i \in BookingIds :
      /\ bookings[i].unit = u
      /\ bookings[i].status = "confirmed"
      /\ Overlaps(bookings[i].lo, bookings[i].hi, g, g + BucketMs) })

remainingSql(winStart, winEnd) ==
  { [bucket |-> g, unit |-> u, remaining |-> UnitCapacity(u) - OverlapCount(g, u)] :
      <<g, u>> \in { x \in Buckets(winStart, winEnd) \X Units :
                       /\ Usable(x[1], x[2])
                       /\ UnitCapacity(x[2]) - OverlapCount(x[1], x[2]) > 0 } }

(* ----------------------------- signed offers --------------------------- *)
calculatePrice(lo, hi, u) == 0

\* the JWT: its payload; the MAC makes it impossible to present a payload
\* that signSlot did not produce
signSlot(lo, hi, u, price, t) ==
  [type |-> "slot_availability", lo |-> lo, hi |-> hi, unit |-> u,
   price |-> price, iat |-> t, exp |-> (t \div MsPerSec) + ExpirySecs]

availableSlots(winStart, winEnd, t) ==
  { [lo |-> r.bucket, hi |-> r.bucket + BucketMs, unit |-> r.unit,
     price |-> calculatePrice(r.bucket, r.bucket + BucketMs, r.unit),
     signature |-> signSlot(r.bucket, r.bucket + BucketMs, r.unit,
                            calculatePrice(r.bucket, r.bucket + BucketMs, r.unit), t)] :
      r \in { x \in remainingSql(winStart, winEnd) : x.remaining > 0 /\ ~(x.bucket <= t) } }

\* verification that does not compare the price
verifySlotSignature_anyPrice(s, t) ==
  /\ s.signature.exp > t \div MsPerSec
  /\ s.signature.type = "slot_availability"
  /\ s.signature.lo = s.lo
  /\ s.signature.hi = s.hi
  /\ s.signature.unit = s.unit

\* verification of a token that carries no expiry
verifySlotSignature_noExpiry(s, t) ==
  /\ s.signature.type = "slot_availability"
  /\ s.signature.lo = s.lo
  /\ s.signature.hi = s.hi
  /\ s.signature.unit = s.unit
  /\ s.signature.price = s.price

\* jwt.verify rejects a token once floor(now / 1000) >= exp; the comparison
\* of the decoded fields follows
verifySlotSignature(s, t) ==
  /\ s.signature.exp > t \div MsPerSec
  /\ s.signature.type = "slot_availability"
  /\ s.signature.lo = s.lo
  /\ s.signature.hi = s.hi
  /\ s.signature.unit = s.unit
  /\ s.signature.price = s.price

(* ------------------------------ requests ------------------------------- *)
NoSig == [type |-> "none", lo |-> 0, hi |-> 0, unit |-> 0, price |-> 0, iat |-> 0, exp |-> 0]

\* a request slot.  The fields from tampered on record what the request met
\* on its way: they are read by the properties only, never by the requests.
IdleProc ==
  [pc |-> "idle", kind |-> "none", user |-> 0, unit |-> 0, lo |-> 0, hi |-> 0,
   price |-> 0, sig |-> NoSig, bid |-> 0, res |-> "none", row |-> 0,
   tampered |-> FALSE, late |-> FALSE, expired |-> FALSE, negbal |-> FALSE,
   again |-> FALSE, eligible |-> FALSE, fresh |-> FALSE, conc |-> FALSE,
   undelivered |-> FALSE]

Free(p) == proc[p].pc \in {"idle", "done"}

InFlightBookings ==
  Cardinality({ q \in AllProcs : proc[q].pc \in {"lookup", "check", "insert"} })

\* rows are never deleted: the table is bounded by not starting a booking
\* request that could exceed MaxBookings rows
RoomForBooking == Len(bookings) + InFlightBookings < MaxBookings

\* a finished request keeps its kind, its outcome and what it met
Ended(r, result, rowId) ==
  [IdleProc EXCEPT !.pc = "done", !.kind = r.kind, !.res = result, !.row = rowId,
                   !.tampered = r.tampered, !.late = r.late, !.expired = r.expired,
                   !.negbal = r.negbal, !.again = r.again, !.eligible = r.eligible]

Finish(p, result, rowId) ==
  [Ended(proc[p], result, rowId) EXCEPT
     !.conc = \A q \in AllProcs \ {p} : proc[q].pc # "idle",
     !.fresh = \E o \in offers : o.sig = proc[p].sig /\ ~o.stale]

\* handlers without the balance check
BalanceBlocked_never(user) == FALSE

\* POST /book-slot and POST /api/book-custom-range: a balance row that is
\* negative stops the request
BalanceBlocked(user) == balance[user] # NoRow /\ Cents(balance[user]) < 0

\* what the client presents for an offer, one field altered or none
Presented(o, tamper) ==
  [lo |-> IF tamper = "start" THEN o.sig.lo - BucketMs \div 2 ELSE o.sig.lo,
   hi |-> IF tamper = "end" THEN o.sig.hi + BucketMs \div 2 ELSE o.sig.hi,
   unit |-> IF tamper = "unit" THEN (CHOOSE u \in Units : u # o.sig.unit) ELSE o.sig.unit,
   price |-> IF tamper = "price" THEN o.sig.price + 1 ELSE o.sig.price,
   signature |-> o.sig]

Tampers == {"none", "start", "end", "unit", "price"}

\* a database change on unit u makes the offers held for u stale
Touch(u) == { [o EXCEPT !.stale = o.stale \/ o.sig.unit = u] : o \in offers }

(* GET /available-slots: the client keeps one of the signed slots returned *)
IssueOffer(winStart, winEnd) ==
  /\ winStart < winEnd
  /\ \E s \in availableSlots(winStart, winEnd, now) :
        offers' = { [sig |-> s.signature, stale |-> FALSE, redeemed |-> FALSE] }
  /\ UNCHANGED <<wsThrows, now, unitActive, blackouts, bookings, sent, proc, creditTx, balance, lastCredit,
               lastSeen, usages, job, reply>>

(* POST /book-slot up to the opening of the transaction: balance check,    *)
(* then verifySlotSignature inside bookSlot                                *)
StartRedeem(p, user, o, tamper) ==
  /\ Free(p)
  /\ LET s == Presented(o, tamper)
         r == [IdleProc EXCEPT !.kind = "redeem", !.user = user, !.unit = s.unit,
                               !.lo = s.lo, !.hi = s.hi, !.sig = s.signature,
                               !.tampered = tamper # "none",
                               !.late = now - o.sig.iat > ValidityMs,
                               !.expired = now \div MsPerSec >= o.sig.exp,
                               !.negbal = Len(balance[user]) = 1 /\ balance[user][1] < 0,
                               !.again = o.redeemed]
     IN proc' = [proc EXCEPT ![p] =
          IF BalanceBlocked(user) THEN Ended(r, "402", 0)
          ELSE IF ~verifySlotSignature(s, now) THEN Ended(r, "invalid_sig", 0)
          ELSE [r EXCEPT !.pc = "lookup"]]
  /\ UNCHANGED <<wsThrows, now, unitActive, blackouts, bookings, offers, sent, creditTx, balance, lastCredit,
               lastSeen, usages, job, reply>>

(* POST /api/book-custom-range up to the opening of the transaction *)
StartCustom(p, user, unit, lo, hi) ==
  /\ Free(p)
  /\ LET r == [IdleProc EXCEPT !.kind = "custom", !.user = user, !.unit = unit,
                               !.lo = lo, !.hi = hi,
                               !.negbal = Len(balance[user]) = 1 /\ balance[user][1] < 0]
     IN proc' = [proc EXCEPT ![p] =
          IF BalanceBlocked(user) THEN Ended(r, "402", 0)
          ELSE [r EXCEPT !.pc = "lookup"]]
  /\ UNCHANGED <<wsThrows, now, unitActive, blackouts, bookings, offers, sent, creditTx, balance, lastCredit,
               lastSeen, usages, job, reply>>

(* units.findFirst(unitId, active) inside the transaction *)
LookupUnit(p) ==
  /\ proc[p].pc = "lookup"
  /\ proc' = [proc EXCEPT ![p] =
       IF proc[p].unit \in Units /\ unitActive[proc[p].unit]
       THEN [@ EXCEPT !.pc = IF proc[p].kind = "redeem" THEN "check" ELSE "insert"]
       ELSE Finish(p, "no_unit", 0)]
  /\ UNCHANGED <<wsThrows, now, unitActive, blackouts, bookings, offers, sent, creditTx, balance, lastCredit,
               lastSeen, usages, job, reply>>

(* bookSlot: the capacity of the slot is derived again *)
CheckCapacity(p) ==
  /\ proc[p].pc = "check"
  /\ LET availableForUnit ==
           { c \in remainingSql(proc[p].lo, proc[p].hi) :
               c.unit = proc[p].unit /\ c.bucket = proc[p].lo }
     IN proc' = [proc EXCEPT ![p] =
          IF availableForUnit = {} \/ \A c \in availableForUnit : c.remaining <= 0
          THEN Finish(p, "unavailable", 0)
          ELSE [@ EXCEPT !.pc = "insert"]]
  /\ UNCHANGED <<wsThrows, now, unitActive, blackouts, bookings, offers, sent, creditTx, balance, lastCredit,
               lastSeen, usages, job, reply>>

\* the bookings table without its exclusion constraint
ExclusionConflict_absent(unit, lo, hi) == FALSE

\* a constraint that excludes equal slots only (slot WITH =)
ExclusionConflict_sameSlot(unit, lo, hi) ==
  \E i \in BookingIds :
     bookings[i].unit = unit /\ bookings[i].lo = lo /\ bookings[i].hi = hi

\* no_overlap_per_unit: EXCLUDE USING gist (unit_id WITH =, slot WITH &&),
\* over every row of the table, whatever its status
ExclusionConflict(unit, lo, hi) ==
  \E i \in BookingIds :
     bookings[i].unit = unit /\ Overlaps(bookings[i].lo, bookings[i].hi, lo, hi)

AddAccess(user, lo, hi) == [kind |-> "addAccess", code |-> user, start |-> lo, stop |-> hi]
\* a removeAccess that takes every booking for one bucket long
RemoveAccess_halfHour(user, lo, hi) ==
  [kind |-> "removeAccess", code |-> user, start |-> lo, stop |-> lo + BucketMs]

RemoveAccess(user, lo, hi) == [kind |-> "removeAccess", code |-> user, start |-> lo, stop |-> hi]

\* a booking transaction that charges the price to the ledger
bookingCharges_debit(user, price) ==
  <<[user |-> user, amount |-> -price, kind |-> "booking"]>>

\* the rows the transactions of bookSlot, bookCustomTimeRange and
\* cancelBooking insert into credit_transactions: they write bookings only
bookingCharges(user, price) == <<>>

(* the insert of bookSlot and bookCustomTimeRange, the addAccess message   *)
(* and the commit; tstzrange input rejects a lower bound above the upper.  *)
(* broadcastBookingMessage runs inside the transaction callback: sent is   *)
(* what the first subscriber in wsConnections received, and a send that    *)
(* throws ends the forEach and rolls the transaction back                  *)
InsertBooking(p) ==
  /\ proc[p].pc = "insert"
  /\ LET r == proc[p]
     IN IF r.lo > r.hi
        THEN /\ proc' = [proc EXCEPT ![p] = Finish(p, "bad_range", 0)]
             /\ UNCHANGED <<bookings, sent, offers, creditTx>>
        ELSE IF ExclusionConflict(r.unit, r.lo, r.hi)
        THEN /\ proc' = [proc EXCEPT ![p] = Finish(p, "exclusion", 0)]
             /\ UNCHANGED <<bookings, sent, offers, creditTx>>
        ELSE IF wsThrows # 0
        THEN /\ proc' = [proc EXCEPT ![p] =
                    [Finish(p, "send_threw", 0) EXCEPT !.undelivered = TRUE]]
             /\ sent' = IF wsThrows = 1 THEN sent
                        ELSE Append(sent, AddAccess(r.user, r.lo, r.hi))
             /\ UNCHANGED <<bookings, offers, creditTx>>
        ELSE /\ bookings' = Append(bookings,
                  [user |-> r.user, unit |-> r.unit, lo |-> r.lo, hi |-> r.hi,
                   status |-> "confirmed"])
             /\ sent' = Append(sent, AddAccess(r.user, r.lo, r.hi))
             /\ offers' = { [o EXCEPT !.stale = o.stale \/ o.sig.unit = r.unit,
                                      !.redeemed = o.redeemed \/ o.sig = r.sig] :
                            o \in offers }
             /\ creditTx' = creditTx \o bookingCharges(r.user, r.price)
             /\ proc' = [proc EXCEPT ![p] = Finish(p, "ok", Len(bookings) + 1)]
  /\ UNCHANGED <<wsThrows, now, unitActive, blackouts, balance, lastCredit,
               lastSeen, usages, job, reply>>

\* cancelBooking: bookings.findFirst(bookingId, userId, status confirmed)
FindOwnConfirmed(bid, user) ==
  /\ bid \in BookingIds
  /\ bookings[bid].user = user
  /\ bookings[bid].status = "confirmed"

(* POST /cancel-booking/:id up to the lookup of cancelBooking *)
StartCancel(p, user, bid) ==
  /\ Free(p)
  /\ LET r == [IdleProc EXCEPT !.kind = "cancel", !.user = user, !.bid = bid,
                 !.eligible = \E i \in BookingIds :
                    i = bid /\ bookings[i].user = user /\ bookings[i].status = "confirmed"]
     IN proc' = [proc EXCEPT ![p] =
          IF FindOwnConfirmed(bid, user)
          THEN [r EXCEPT !.pc = "update"]
          ELSE Ended(r, "false", 0)]
  /\ UNCHANGED <<wsThrows, now, unitActive, blackouts, bookings, offers, sent, creditTx, balance, lastCredit,
               lastSeen, usages, job, reply>>

\* an update that also clears the owner of the row
cancelledRow_anonymous(b) == [b EXCEPT !.status = "cancelled", !.user = 0]

\* .set({ status: 'cancelled' })
cancelledRow(b) == [b EXCEPT !.status = "cancelled"]

(* cancelBooking: the update by booking_id, the removeAccess message and   *)
(* the commit; parseTstzRange throws on the text of an empty range, which  *)
(* rolls the update back                                                   *)
CancelUpdate(p) ==
  /\ proc[p].pc = "update"
  /\ LET b == bookings[proc[p].bid]
     IN IF IsEmptyRange(b.lo, b.hi)
        THEN /\ proc' = [proc EXCEPT ![p] = Finish(p, "throw", 0)]
             /\ UNCHANGED <<bookings, sent, offers, creditTx>>
        ELSE IF wsThrows # 0
        THEN /\ proc' = [proc EXCEPT ![p] =
                    [Finish(p, "send_threw", 0) EXCEPT !.undelivered = TRUE]]
             /\ sent' = IF wsThrows = 1 THEN sent
                        ELSE Append(sent, RemoveAccess(b.user, b.lo, b.hi))
             /\ UNCHANGED <<bookings, offers, creditTx>>
        ELSE /\ bookings' = [bookings EXCEPT ![proc[p].bid] = cancelledRow(b)]
             /\ sent' = Append(sent, RemoveAccess(b.user, b.lo, b.hi))
             /\ offers' = Touch(b.unit)
             /\ creditTx' = creditTx \o bookingCharges(b.user, 0)
             /\ proc' = [proc EXCEPT ![p] = Finish(p, "true", proc[p].bid)]
  /\ UNCHANGED <<wsThrows, now, unitActive, blackouts, balance, lastCredit,
               lastSeen, usages, job, reply>>

(* ---------------------------- environment ------------------------------ *)
\* blackout_no_overlap: EXCLUDE USING gist (unit_id WITH =, period WITH &&)
BlackoutConflict(unit, lo, hi) ==
  \E bo \in blackouts : bo.unit = unit /\ Overlaps(bo.lo, bo.hi, lo, hi)

(* an administrator inserts a blackout row *)
AddBlackout(unit, lo, hi) ==
  /\ ~BlackoutConflict(unit, lo, hi)
  /\ blackouts' = blackouts \cup {[unit |-> unit, lo |-> lo, hi |-> hi]}
  /\ offers' = Touch(unit)
  /\ UNCHANGED <<wsThrows, now, unitActive, bookings, sent, proc, creditTx, balance, lastCredit,
               lastSeen, usages, job, reply>>

(* an administrator deletes a blackout row *)
DeleteBlackout(bo) ==
  /\ blackouts' = blackouts \ {bo}
  /\ offers' = Touch(bo.unit)
  /\ UNCHANGED <<wsThrows, now, unitActive, bookings, sent, proc, creditTx, balance, lastCredit,
               lastSeen, usages, job, reply>>

(* an administrator toggles units.active *)
SetUnitActive(unit) ==
  /\ unitActive' = [unitActive EXCEPT ![unit] = ~@]
  /\ offers' = Touch(unit)
  /\ UNCHANGED <<wsThrows, now, blackouts, bookings, sent, proc, creditTx, balance, lastCredit,
               lastSeen, usages, job, reply>>

(* a subscriber's connection starts or stops making socket.send throw *)
Subscribers == {1, 2}

\* the first subscriber's log has room for the message of one more request
RoomForSend == Len(sent) < MaxSent

SocketFault(k) ==
  /\ k # wsThrows
  /\ wsThrows' = k
  /\ UNCHANGED <<now, unitActive, blackouts, bookings, offers, sent, proc, creditTx, balance,
                 lastCredit, lastSeen, usages, job, reply>>

(* the replies of POST /book-slot and POST /api/book-custom-range: every   *)
(* Error thrown by the manager is answered with 400 and its own message    *)
replyCode(res) ==
  IF res = "ok" THEN 200 ELSE IF res = "402" THEN 402 ELSE 400

replyError(res) ==
  CASE res = "ok" -> "none"
    [] res = "402" -> "Insufficient credits. Your balance is negative. Please add credits to your account before booking."
    [] res = "invalid_sig" -> "Invalid or expired slot signature"
    [] res = "no_unit" -> "Unit not found or inactive"
    [] res = "unavailable" -> "Slot no longer available"
    [] res = "exclusion" -> "conflicting key value violates exclusion constraint no_overlap_per_unit"
    [] res = "bad_range" -> "range lower bound must be less than or equal to range upper bound"
    [] OTHER -> "socket.send failed"

\* findMany where upper(slot) > NOW(): the rows sendExistingSlots reads;
\* an empty range has no upper bound
futureBookings ==
  { i \in BookingIds : ~IsEmptyRange(bookings[i].lo, bookings[i].hi) /\ bookings[i].hi > now }

\* parseSlot: the text of a range with two quoted bounds; the text of an
\* empty range is not of that form
parseSlot(b) == ~IsEmptyRange(b.lo, b.hi)

(* GET /ws/bookings: a subscriber connects and is sent an addAccess for    *)
(* each row read.  rows are the bookings behind the messages; confirmed    *)
(* records which future bookings were confirmed when the rows were read    *)
sendExistingSlots ==
  /\ reply' = [query |-> "replay", at |-> now,
               rows |-> { i \in futureBookings : parseSlot(bookings[i]) },
               messages |-> { AddAccess(bookings[i].user, bookings[i].lo, bookings[i].hi) :
                                i \in { j \in futureBookings : parseSlot(bookings[j]) } },
               confirmed |-> { i \in BookingIds :
                                 bookings[i].hi > now /\ bookings[i].status = "confirmed" }]
  /\ UNCHANGED <<wsThrows, now, unitActive, blackouts, bookings, offers, sent, proc, creditTx,
                 balance, lastCredit, lastSeen, usages, job>>

(* time passes *)
Tick(t) ==
  /\ t > now
  /\ now' = t
  /\ UNCHANGED <<wsThrows, unitActive, blackouts, bookings, offers, sent, proc, creditTx, balance, lastCredit,
               lastSeen, usages, job, reply>>

(* ----------------------------- credit ledger --------------------------- *)
NoCredit == [user |-> 0, amount |-> 0, kind |-> "none", raised |-> FALSE]

\* an upsert that stores the amount instead of adding it
credit_balance_upkeep_overwrite(user, amount) == [raised |-> amount < 0, bal |-> amount]

\* the trigger without its safety net
credit_balance_upkeep_noRaise(user, amount) ==
  LET bal == IF balance[user] = NoRow THEN amount ELSE Cents(balance[user]) + amount
  IN [raised |-> FALSE, bal |-> bal]

\* trigger credit_balance_tg: upsert of the balance, then the check that
\* raises; [raised, bal] is whether it raised and the balance it computed
credit_balance_upkeep(user, amount) ==
  LET bal == IF balance[user] = NoRow THEN amount ELSE Cents(balance[user]) + amount
  IN [raised |-> bal < 0, bal |-> bal]

\* INSERT INTO credit_transactions as one statement: the row, then the
\* AFTER INSERT trigger; an exception undoes the statement
InsertCreditTransaction(user, amount, kind) ==
  LET t == credit_balance_upkeep(user, amount)
  IN /\ lastCredit' = [user |-> user, amount |-> amount, kind |-> kind, raised |-> t.raised]
     /\ IF t.raised
        THEN UNCHANGED <<creditTx, balance>>
        ELSE /\ creditTx' = Append(creditTx, [user |-> user, amount |-> amount, kind |-> kind])
             /\ balance' = [balance EXCEPT ![user] = Row(t.bal)]

calculateUsageCharges(copies, stencils) ==
  copies * copyPriceCents + stencils * stencilPriceCents

(* POST /stripe-webhook, checkout.session.completed *)
Purchase(user, amount) ==
  /\ Len(creditTx) < MaxCreditTx
  /\ InsertCreditTransaction(user, amount, "purchase")
  /\ UNCHANGED <<wsThrows, now, unitActive, blackouts, bookings, offers, sent, proc, lastSeen, usages, job, reply>>

(* BillingService.createUsageTransaction *)
createUsageTransaction(user, copies, stencils) ==
  /\ Len(creditTx) < MaxCreditTx
  /\ IF calculateUsageCharges(copies, stencils) <= 0
     THEN UNCHANGED <<creditTx, balance, lastCredit>>
     ELSE InsertCreditTransaction(user, -calculateUsageCharges(copies, stencils), "usage_charge")
  /\ UNCHANGED <<wsThrows, now, unitActive, blackouts, bookings, offers, sent, proc, lastSeen, usages, job, reply>>

\* amounts a checkout may carry and quantities a usage report may bill
PurchaseAmounts == {2000, 5000}
CopyCounts == {0, 100, 250}
StencilCounts == {0, 10}

(* ------------------------ background requests ------------------------- *)
\* requests that write the ledger: Stripe webhooks and usage ingestions
Workers == {1, 2}

\* the fields from fits on record what the request met; the properties
\* read them, the requests do not
IdleJob ==
  [pc |-> "idle", kind |-> "none", user |-> 0, amount |-> 0, bal |-> 0, raised |-> FALSE,
   res |-> "none", copies |-> 0, stencils |-> 0, seen |-> NoRow,
   billCopies |-> 0, billStencils |-> 0,
   fits |-> FALSE, conc |-> FALSE, again |-> FALSE]

JobFree(w) == job[w].pc \in {"idle", "done"}

NoReply == [query |-> "none"]

(* ---------------- the credit insert, statement by statement ------------ *)
\* inserts into credit_transactions whose statement has not ended
InFlightCredits == Cardinality({ w \in Workers : job[w].pc \in {"tx_row", "tx_check"} })

\* rows are never deleted: an insert begins while the table has room
RoomForCredit == Len(creditTx) + InFlightCredits < MaxCreditTx

\* a database without row locks
BalanceRowLocked_never(w) == FALSE

\* the credit_balances row of the user is locked by another statement, one
\* whose upsert is done and whose transaction has not ended; an upsert of a
\* row that another open transaction has inserted waits in the same way
BalanceRowLocked(w) ==
  \E v \in Workers \ {w} : job[v].pc = "tx_check" /\ job[v].user = job[w].user

(* INSERT INTO credit_transactions begins: the row exists in the           *)
(* statement's own transaction only                                        *)
BeginCreditInsert(w, user, amount, kind) ==
  /\ JobFree(w)
  /\ job' = [job EXCEPT ![w] =
        [IdleJob EXCEPT !.pc = "tx_row", !.kind = kind, !.user = user, !.amount = amount,
           !.fits = Len(balance[user]) = 1 /\ balance[user][1] + amount >= 0,
           !.conc = \E v \in Workers \ {w} :
                       job[v].pc \in {"tx_row", "tx_check"} /\ job[v].user = user]]
  /\ UNCHANGED <<wsThrows, now, unitActive, blackouts, bookings, offers, sent, proc, creditTx, balance,
                 lastCredit, lastSeen, usages, reply>>

(* the trigger's upsert: it waits for the row lock, then adds the amount   *)
(* to the latest committed balance                                         *)
UpsertBalance(w) ==
  /\ job[w].pc = "tx_row"
  /\ ~BalanceRowLocked(w)
  /\ job' = [job EXCEPT ![w].pc = "tx_check",
                        ![w].bal = credit_balance_upkeep(job[w].user, job[w].amount).bal,
                        ![w].raised = credit_balance_upkeep(job[w].user, job[w].amount).raised]
  /\ UNCHANGED <<wsThrows, now, unitActive, blackouts, bookings, offers, sent, proc, creditTx, balance,
                 lastCredit, lastSeen, usages, reply>>

(* the trigger's check and the end of the statement: commit, or rollback   *)
(* after RAISE EXCEPTION                                                   *)
EndCreditInsert(w) ==
  /\ job[w].pc = "tx_check"
  /\ lastCredit' = [user |-> job[w].user, amount |-> job[w].amount, kind |-> job[w].kind,
                    raised |-> job[w].raised]
  /\ IF job[w].raised
     THEN /\ job' = [job EXCEPT ![w].pc = "done", ![w].res = "raised"]
          /\ UNCHANGED <<creditTx, balance>>
     ELSE /\ job' = [job EXCEPT ![w].pc = "done", ![w].res = "ok"]
          /\ creditTx' = Append(creditTx,
                 [user |-> job[w].user, amount |-> job[w].amount, kind |-> job[w].kind])
          /\ balance' = [balance EXCEPT ![job[w].user] = Row(job[w].bal)]
  /\ UNCHANGED <<wsThrows, now, unitActive, blackouts, bookings, offers, sent, proc, lastSeen, usages, reply>>

(* --------------------------- read-only queries ------------------------ *)
\* instants that queries and the bookings they see may name: two buckets
\* and the middle of the first
QueryTimes == { BucketMs, BucketMs + BucketMs \div 2, 2 * BucketMs, 3 * BucketMs }

\* the windows the capacity client asks about (GET /available-slots lets
\* through only windows with start < end): two whole buckets, less than one
\* bucket, one bucket and a half, and an unaligned start
CapacityWindows ==
  { <<BucketMs, 3 * BucketMs>>, <<BucketMs, BucketMs + BucketMs \div 2>>,
    <<BucketMs, 2 * BucketMs + BucketMs \div 2>>,
    <<BucketMs + BucketMs \div 2, 3 * BucketMs>> }

\* what the client of the query specifications books: the first half
\* bucket, the first bucket and the second bucket
BookableRanges ==
  { <<BucketMs, BucketMs + BucketMs \div 2>>, <<BucketMs, 2 * BucketMs>>,
    <<2 * BucketMs, 3 * BucketMs>> }

\* the windows the density client asks about
DensityWindows ==
  { <<BucketMs, 3 * BucketMs>>, <<BucketMs + BucketMs \div 2, 3 * BucketMs>>,
    <<BucketMs + BucketMs \div 2, 2 * BucketMs>>, <<BucketMs, 2 * BucketMs>>,
    <<BucketMs, BucketMs>>, <<2 * BucketMs, BucketMs>> }

(* remainingCapacityByHalfHour: the rows of the capacity query *)
remainingCapacityByHalfHour(winStart, winEnd) ==
  /\ reply' = [query |-> "capacity", lo |-> winStart, hi |-> winEnd,
               rows |-> remainingSql(winStart, winEnd)]
  /\ UNCHANGED <<wsThrows, now, unitActive, blackouts, bookings, offers, sent, proc, creditTx, balance,
                 lastCredit, lastSeen, usages, job>>

\* the confirmed bookings of the unit that overlap the window, as slots
overlappingBookings(unitId, start, end) ==
  { i \in BookingIds :
      /\ bookings[i].unit = unitId
      /\ bookings[i].status = "confirmed"
      /\ Overlaps(bookings[i].lo, bookings[i].hi, start, end) }

\* the count at the window start taken with a strict comparison
numBookingsAtStart_strict(unitId, start, end) ==
  Cardinality({ i \in overlappingBookings(unitId, start, end) : bookings[i].lo < start })

numBookingsAtStart(unitId, start, end) ==
  Cardinality({ i \in overlappingBookings(unitId, start, end) : bookings[i].lo <= start })

\* changePoints: the starts and ends inside the window, with their counts
changeStarts(unitId, start, end, t) ==
  Cardinality({ i \in overlappingBookings(unitId, start, end) :
      start < bookings[i].lo /\ bookings[i].lo <= end /\ bookings[i].lo = t })

changeEnds(unitId, start, end, t) ==
  Cardinality({ i \in overlappingBookings(unitId, start, end) :
      bookings[i].hi < end /\ bookings[i].hi >= start /\ bookings[i].hi = t })

changePoints(unitId, start, end) ==
  { t \in { bookings[i].lo : i \in BookingIds } \cup { bookings[i].hi : i \in BookingIds } :
      changeStarts(unitId, start, end, t) > 0 \/ changeEnds(unitId, start, end, t) > 0 }

\* the change points under the comparator c2 - c1
RECURSIVE Sorted_descending(_)
Sorted_descending(S) ==
  IF S = {} THEN <<>>
  ELSE LET m == CHOOSE x \in S : \A y \in S : x >= y
       IN <<m>> \o Sorted_descending(S \ {m})

\* changes.sort: the instants of a set in ascending order
RECURSIVE Sorted(_)
Sorted(S) ==
  IF S = {} THEN <<>>
  ELSE LET m == CHOOSE x \in S : \A y \in S : x <= y
       IN <<m>> \o Sorted(S \ {m})

\* the sweep: interval i runs from the previous change (or the window
\* start) to the next change (or the window end) with the running count
RECURSIVE sweep(_, _, _, _, _, _)
sweep(unitId, start, end, changes, i, numBookings) ==
  IF i > Len(changes) + 1 THEN <<>>
  ELSE <<[startTime |-> IF i = 1 THEN start ELSE changes[i - 1],
          endTime |-> IF i = Len(changes) + 1 THEN end ELSE changes[i],
          bookedCount |-> numBookings]>>
       \o (IF i <= Len(changes)
           THEN sweep(unitId, start, end, changes, i + 1,
                      numBookings + changeStarts(unitId, start, end, changes[i])
                                  - changeEnds(unitId, start, end, changes[i]))
           ELSE <<>>)

getBookingDensity(unitId, start, end) ==
  sweep(unitId, start, end, Sorted(changePoints(unitId, start, end)), 1,
        numBookingsAtStart(unitId, start, end))

(* GET /api/booking-density: an inverted window is an error of the range   *)
(* constructor, a missing or inactive unit one of getBookingDensity        *)
QueryDensity(unitId, start, end) ==
  /\ reply' =
        IF start > end \/ unitId \notin Units \/ ~unitActive[unitId]
        THEN [query |-> "density", unit |-> unitId, lo |-> start, hi |-> end,
              error |-> TRUE, intervals |-> <<>>, totalCapacity |-> 0]
        ELSE [query |-> "density", unit |-> unitId, lo |-> start, hi |-> end,
              error |-> FALSE, intervals |-> getBookingDensity(unitId, start, end),
              totalCapacity |-> UnitCapacity(unitId)]
  /\ UNCHANGED <<wsThrows, now, unitActive, blackouts, bookings, offers, sent, proc, creditTx, balance,
                 lastCredit, lastSeen, usages, job>>

(* ------------------------------ booking UI ----------------------------- *)
FIFTEEN_MINUTES == 15 * 60 * MsPerSec

\* the day of the calendar, scaled down: the density window getDayRange
\* asks for ends before the last slices generateTimeSlots lays out
DayStart == BucketMs
DayRangeEnd == 3 * BucketMs
NumTimeSlots == 5

\* an instant off the 15-minute grid: 20 minutes into the first bucket
OffGrid == BucketMs + 20 * 60 * MsPerSec

\* what the client of the calendar books
CalendarRanges ==
  { <<OffGrid, 2 * BucketMs>>, <<BucketMs, OffGrid>>, <<BucketMs, 2 * BucketMs>>,
    <<2 * BucketMs, 3 * BucketMs>> }

\* Math.floor and Math.ceil of x / FIFTEEN_MINUTES
floorIndex(x) == x \div FIFTEEN_MINUTES
ceilIndex(x) == -((-x) \div FIFTEEN_MINUTES)

MinOf(a, b) == IF a < b THEN a ELSE b

\* generateTimeSlots: every slot starts with bookedCount 0; the intervals,
\* in order, write their count to the slots startIndex .. endIndex
RECURSIVE paintSlots(_, _, _)
paintSlots(slots, intervals, k) ==
  IF k > Len(intervals) THEN slots
  ELSE LET x == intervals[k]
           startIndex == floorIndex(x.startTime - DayStart)
           endIndex == ceilIndex(x.endTime - DayStart)
       IN paintSlots([i \in 0..(NumTimeSlots - 1) |->
                        IF startIndex <= i /\ i < MinOf(endIndex + 1, NumTimeSlots)
                        THEN x.bookedCount ELSE slots[i]],
                     intervals, k + 1)

generateTimeSlots(intervals) ==
  paintSlots([i \in 0..(NumTimeSlots - 1) |-> 0], intervals, 1)

(* loadCalendar of the booking page: the density of the day is fetched and *)
(* laid out in slots; an error answer leaves the calendar as it was        *)
loadCalendar(unitId) ==
  /\ unitActive[unitId]
  /\ reply' = [query |-> "calendar", unit |-> unitId, lo |-> DayStart, hi |-> DayRangeEnd,
               intervals |-> getBookingDensity(unitId, DayStart, DayRangeEnd),
               timeSlots |-> generateTimeSlots(getBookingDensity(unitId, DayStart, DayRangeEnd))]
  /\ UNCHANGED <<wsThrows, now, unitActive, blackouts, bookings, offers, sent, proc, creditTx,
                 balance, lastCredit, lastSeen, usages, job>>

(* ------------------------- usage reconciliation ------------------------ *)
\* the columns of a riso_last_seen_totals row, 0 when there is no row
lastSeenCopies(seen) == IF seen = NoRow THEN 0 ELSE seen[1].copies
lastSeenStencils(seen) == IF seen = NoRow THEN 0 ELSE seen[1].stencils
\* a reconciler that forgets what it billed before
cumulativeCopiesBilled_forgotten(seen) == 0

cumulativeCopiesBilled(seen) == IF seen = NoRow THEN 0 ELSE seen[1].billedCopies
cumulativeStencilsBilled(seen) == IF seen = NoRow THEN 0 ELSE seen[1].billedStencils

Max0(x) == IF x > 0 THEN x ELSE 0

\* a reconciler that takes a lower counter for an ordinary report
resetDetected_never(seen, totalCopies, masterCount) == FALSE

\* the check for a counter reset: either counter below its last-seen value
resetDetected(seen, totalCopies, masterCount) ==
  totalCopies < lastSeenCopies(seen) \/ masterCount < lastSeenStencils(seen)

copiesToBill(seen, totalCopies, masterCount) ==
  IF resetDetected(seen, totalCopies, masterCount)
  THEN Max0(lastSeenCopies(seen) - cumulativeCopiesBilled(seen)) + totalCopies
  ELSE totalCopies - lastSeenCopies(seen)

stencilsToBill(seen, totalCopies, masterCount) ==
  IF resetDetected(seen, totalCopies, masterCount)
  THEN Max0(lastSeenStencils(seen) - cumulativeStencilsBilled(seen)) + masterCount
  ELSE masterCount - lastSeenStencils(seen)

\* the counters a report carries for a user
ReportedCopies == {40, 100}
ReportedStencils == {10, 12}

\* rows are never deleted: an ingestion begins while both tables have room
RoomForUsage ==
  /\ Len(usages) + Cardinality({ w \in Workers : job[w].pc = "riso_usage" }) < MaxUsages
  /\ Len(creditTx) + Cardinality({ w \in Workers : job[w].pc \in {"riso_usage", "riso_debit"} })
        < MaxCreditTx

(* POST /api/submit-usage-csv for one user of the report: the last-seen    *)
(* totals are read and the quantities to bill computed                     *)
BeginIngest(w, user, copies, stencils) ==
  /\ JobFree(w)
  /\ LET seen == lastSeen[user]
         r == [IdleJob EXCEPT !.kind = "ingest", !.user = user,
                 !.copies = copies, !.stencils = stencils, !.seen = seen,
                 !.billCopies = copiesToBill(seen, copies, stencils),
                 !.billStencils = stencilsToBill(seen, copies, stencils),
                 !.again = /\ job[w].pc = "done" /\ job[w].kind = "ingest"
                           /\ job[w].user = user
                           /\ job[w].copies = copies /\ job[w].stencils = stencils]
     IN job' = [job EXCEPT ![w] =
          [r EXCEPT !.pc = IF r.billCopies > 0 \/ r.billStencils > 0
                           THEN "riso_usage" ELSE "riso_totals"]]
  /\ UNCHANGED <<wsThrows, now, unitActive, blackouts, bookings, offers, sent, proc, creditTx, balance,
                 lastCredit, lastSeen, usages, reply>>

(* db.insert(risographUsages) *)
InsertUsage(w) ==
  /\ job[w].pc = "riso_usage"
  /\ usages' = Append(usages, [user |-> job[w].user, copies |-> job[w].billCopies,
                               stencils |-> job[w].billStencils])
  /\ job' = [job EXCEPT ![w].pc = "riso_debit"]
  /\ UNCHANGED <<wsThrows, now, unitActive, blackouts, bookings, offers, sent, proc, creditTx, balance,
                 lastCredit, lastSeen, reply>>

(* billingService.createUsageTransaction; an exception of the insert ends  *)
(* the processing of this user                                             *)
DebitUsage(w) ==
  /\ job[w].pc = "riso_debit"
  /\ IF calculateUsageCharges(job[w].billCopies, job[w].billStencils) <= 0
     THEN /\ job' = [job EXCEPT ![w].pc = "riso_totals"]
          /\ UNCHANGED <<creditTx, balance, lastCredit>>
     ELSE /\ InsertCreditTransaction(job[w].user,
                -calculateUsageCharges(job[w].billCopies, job[w].billStencils), "usage_charge")
          /\ job' = [job EXCEPT ![w] =
                IF credit_balance_upkeep(job[w].user,
                     -calculateUsageCharges(job[w].billCopies, job[w].billStencils)).raised
                THEN [@ EXCEPT !.pc = "done", !.res = "error"]
                ELSE [@ EXCEPT !.pc = "riso_totals"]]
  /\ UNCHANGED <<wsThrows, now, unitActive, blackouts, bookings, offers, sent, proc, lastSeen, usages, reply>>

(* the update of riso_last_seen_totals, or the insert of the user's first  *)
(* row, which fails on the primary key if a row has appeared meanwhile     *)
UpdateTotals(w) ==
  /\ job[w].pc = "riso_totals"
  /\ LET r == job[w]
         row == [copies |-> r.copies, stencils |-> r.stencils,
                 billedCopies |-> cumulativeCopiesBilled(r.seen) + r.billCopies,
                 billedStencils |-> cumulativeStencilsBilled(r.seen) + r.billStencils]
     IN IF r.seen = NoRow /\ lastSeen[r.user] # NoRow
        THEN /\ job' = [job EXCEPT ![w].pc = "done", ![w].res = "error"]
             /\ UNCHANGED lastSeen
        ELSE /\ job' = [job EXCEPT ![w].pc = "done", ![w].res = "ok"]
             /\ lastSeen' = [lastSeen EXCEPT ![r.user] = <<row>>]
  /\ UNCHANGED <<wsThrows, now, unitActive, blackouts, bookings, offers, sent, proc, creditTx, balance,
                 lastCredit, usages, reply>>

(* --------------------------- specifications ---------------------------- *)
Init ==
  /\ now = 0
  /\ unitActive = [u \in Units |-> TRUE]
  /\ blackouts = {}
  /\ bookings = <<>>
  /\ offers = {}
  /\ sent = <<>>
  /\ proc = [p \in AllProcs |-> IdleProc]
  /\ creditTx = <<>>
  /\ balance = [u \in Users |-> NoRow]
  /\ lastCredit = NoCredit
  /\ lastSeen = [u \in Users |-> NoRow]
  /\ usages = <<>>
  /\ job = [w \in Workers |-> IdleJob]
  /\ reply = NoReply
  /\ wsThrows = 0

\* request slot p books for user p and cancels for any user; a booking
\* request is let in while the table has room for its row
Next ==
  \/ \E ws \in TimePoints, we \in TimePoints : IssueOffer(ws, we)
  \/ \E p \in Procs, o \in offers : RoomForBooking /\ StartRedeem(p, p, o, "none")
  \/ \E p \in Procs, unit \in Units \cup {NoUnit}, r \in CustomRanges :
        RoomForBooking /\ StartCustom(p, p, unit, r[1], r[2])
  \/ \E p \in Procs : LookupUnit(p)
  \/ \E p \in Procs : CheckCapacity(p)
  \/ \E p \in Procs : InsertBooking(p)
  \/ \E p \in Procs, user \in Users, bid \in 1..MaxBookings : StartCancel(p, user, bid)
  \/ \E p \in Procs : CancelUpdate(p)

Spec == Init /\ [][Next]_vars

(* bookings and blackouts: one client, one administrator *)
NextBlackout ==
  \/ \E ws \in TimePoints, we \in TimePoints : IssueOffer(ws, we)
  \/ \E o \in offers : RoomForBooking /\ StartRedeem(1, 1, o, "none")
  \/ \E unit \in Units, r \in CustomRanges : RoomForBooking /\ StartCustom(1, 1, unit, r[1], r[2])
  \/ LookupUnit(1)
  \/ CheckCapacity(1)
  \/ InsertBooking(1)
  \/ \E unit \in Units, per \in BlackoutPeriods : AddBlackout(unit, per[1], per[2])
  \/ \E bo \in blackouts : DeleteBlackout(bo)

SpecBlackout == Init /\ [][NextBlackout]_vars

(* the redemption race: one offer is issued on an empty table and every    *)
(* racer redeems it once                                                   *)
RacerUser(r) == 1 + (r % 2)

NextRace ==
  \/ \E ws \in TimePoints, we \in TimePoints : offers = {} /\ IssueOffer(ws, we)
  \/ \E r \in Racers, o \in offers : proc[r].pc = "idle" /\ StartRedeem(r, RacerUser(r), o, "none")
  \/ \E r \in Racers : LookupUnit(r)
  \/ \E r \in Racers : CheckCapacity(r)
  \/ \E r \in Racers : InsertBooking(r)

SpecRace == Init /\ [][NextRace]_vars

(* one client redeeming offers, possibly altered, while time passes and    *)
(* units are switched off and on                                           *)
NextOffer ==
  \/ \E ws \in TimePoints, we \in TimePoints : IssueOffer(ws, we)
  \/ \E o \in offers, tamper \in Tampers : RoomForBooking /\ StartRedeem(1, 1, o, tamper)
  \/ LookupUnit(1)
  \/ CheckCapacity(1)
  \/ InsertBooking(1)
  \/ \E unit \in Units : SetUnitActive(unit)
  \/ \E t \in ClockSamples : Tick(t)

SpecOffer == Init /\ [][NextOffer]_vars

(* the balance gate: user 1 has a balance row of -500 cents, user 2 one of *)
(* zero.  The ledger trigger never leaves such a row behind; the handlers  *)
(* check for one all the same.                                             *)
InitGate ==
  /\ now = 0
  /\ unitActive = [u \in Units |-> TRUE]
  /\ blackouts = {}
  /\ bookings = <<>>
  /\ offers = {}
  /\ sent = <<>>
  /\ proc = [p \in AllProcs |-> IdleProc]
  /\ creditTx = <<>>
  /\ balance = [u \in Users |-> IF u = 1 THEN Row(-500) ELSE Row(0)]
  /\ lastCredit = NoCredit
  /\ lastSeen = [u \in Users |-> NoRow]
  /\ usages = <<>>
  /\ job = [w \in Workers |-> IdleJob]
  /\ reply = NoReply
  /\ wsThrows = 0

NextGate ==
  \/ \E ws \in TimePoints, we \in TimePoints : IssueOffer(ws, we)
  \/ \E p \in Procs, o \in offers, tamper \in {"none", "price"} :
        RoomForBooking /\ StartRedeem(p, p, o, tamper)
  \/ \E p \in Procs, unit \in Units \cup {NoUnit}, r \in CustomRanges :
        RoomForBooking /\ StartCustom(p, p, unit, r[1], r[2])
  \/ \E p \in Procs : LookupUnit(p)
  \/ \E p \in Procs : CheckCapacity(p)
  \/ \E p \in Procs : InsertBooking(p)

SpecGate == InitGate /\ [][NextGate]_vars

(* the credit ledger alone *)
NextLedger ==
  \/ \E user \in Users, amount \in PurchaseAmounts : Purchase(user, amount)
  \/ \E user \in Users, copies \in CopyCounts, stencils \in StencilCounts :
        createUsageTransaction(user, copies, stencils)

SpecLedger == Init /\ [][NextLedger]_vars

(* the capacity query over a changing schedule: one client books and      *)
(* cancels, an administrator blacks buckets out and switches units         *)
NextCapacity ==
  \/ \E w \in CapacityWindows : remainingCapacityByHalfHour(w[1], w[2])
  \/ IssueOffer(BucketMs, 3 * BucketMs)
  \/ \E o \in offers : RoomForBooking /\ StartRedeem(1, 1, o, "none")
  \/ LookupUnit(1)
  \/ CheckCapacity(1)
  \/ InsertBooking(1)
  \/ \E bid \in 1..MaxBookings : StartCancel(1, 1, bid)
  \/ CancelUpdate(1)
  \/ AddBlackout(2, 2 * BucketMs, 2 * BucketMs + BucketMs \div 2)
  \/ SetUnitActive(1)

SpecCapacity == Init /\ [][NextCapacity]_vars

(* the density query over a changing schedule *)
NextDensity ==
  \/ \E unit \in {1, NoUnit}, w \in DensityWindows : QueryDensity(unit, w[1], w[2])
  \/ \E unit \in Units, r \in BookableRanges : RoomForBooking /\ StartCustom(1, 1, unit, r[1], r[2])
  \/ LookupUnit(1)
  \/ InsertBooking(1)
  \/ \E bid \in 1..MaxBookings : StartCancel(1, 1, bid)
  \/ CancelUpdate(1)
  \/ SetUnitActive(1)

SpecDensity == Init /\ [][NextDensity]_vars

(* the calendar of the booking page over a changing schedule *)
NextCalendar ==
  \/ \E unit \in Units : loadCalendar(unit)
  \/ \E unit \in Units, r \in CalendarRanges : RoomForBooking /\ StartCustom(1, 1, unit, r[1], r[2])
  \/ LookupUnit(1)
  \/ InsertBooking(1)
  \/ \E bid \in 1..MaxBookings : StartCancel(1, 1, bid)
  \/ CancelUpdate(1)

SpecCalendar == Init /\ [][NextCalendar]_vars

(* the life of bookings: one client redeems offers, books custom ranges    *)
(* (well-formed, empty and inverted) and cancels, while an administrator   *)
(* blacks a bucket out and switches a unit off and on                      *)
NextLifecycle ==
  \/ IssueOffer(BucketMs, 2 * BucketMs)
  \/ \E o \in offers : RoomForBooking /\ StartRedeem(1, 1, o, "none")
  \/ \E unit \in Units, r \in CustomRanges : RoomForBooking /\ StartCustom(1, 1, unit, r[1], r[2])
  \/ LookupUnit(1)
  \/ CheckCapacity(1)
  \/ InsertBooking(1)
  \/ \E bid \in 1..MaxBookings : StartCancel(1, 1, bid)
  \/ CancelUpdate(1)
  \/ AddBlackout(2, BucketMs, BucketMs + BucketMs \div 2)
  \/ SetUnitActive(1)

SpecLifecycle == Init /\ [][NextLifecycle]_vars

(* bookings and cancellations of one client while subscribers' sockets    *)
(* fail and recover                                                        *)
NextNotify ==
  \/ IssueOffer(BucketMs, 3 * BucketMs)
  \/ \E o \in offers : RoomForBooking /\ RoomForSend /\ StartRedeem(1, 1, o, "none")
  \/ \E unit \in Units : RoomForBooking /\ RoomForSend /\ StartCustom(1, 1, unit, BucketMs, 2 * BucketMs)
  \/ LookupUnit(1)
  \/ CheckCapacity(1)
  \/ InsertBooking(1)
  \/ \E bid \in 1..MaxBookings : RoomForSend /\ StartCancel(1, 1, bid)
  \/ CancelUpdate(1)
  \/ \E k \in Subscribers \cup {0} : SocketFault(k)

SpecNotify == Init /\ [][NextNotify]_vars

(* the credit ledger under concurrent writers: the smallest purchase, and  *)
(* the usage charges it can pay for                                        *)
RacePurchases == { a \in PurchaseAmounts : \A b \in PurchaseAmounts : a <= b }

UsageCharges ==
  { x \in { calculateUsageCharges(c, n) : c \in CopyCounts, n \in StencilCounts } :
      x > 0 /\ \E a \in RacePurchases : x <= a }

NextLedgerRace ==
  \/ \E w \in Workers, user \in Users, amount \in RacePurchases :
        RoomForCredit /\ BeginCreditInsert(w, user, amount, "purchase")
  \/ \E w \in Workers, user \in Users, charge \in UsageCharges :
        RoomForCredit /\ BeginCreditInsert(w, user, -charge, "usage_charge")
  \/ \E w \in Workers : UpsertBalance(w)
  \/ \E w \in Workers : EndCreditInsert(w)

SpecLedgerRace == Init /\ [][NextLedgerRace]_vars

(* usage ingestion, one reporting user at a time, between purchases *)
NextRiso ==
  \/ \E user \in Users, amount \in PurchaseAmounts : Purchase(user, amount)
  \/ \E user \in Users, copies \in ReportedCopies, stencils \in ReportedStencils :
        RoomForUsage /\ BeginIngest(1, user, copies, stencils)
  \/ InsertUsage(1)
  \/ DebitUsage(1)
  \/ UpdateTotals(1)

SpecRiso == Init /\ [][NextRiso]_vars

(* the ledger and the two booking entry points that read its balances *)
NextCredit ==
  \/ \E user \in Users, amount \in RacePurchases : Purchase(user, amount)
  \/ \E user \in Users, copies \in CopyCounts : createUsageTransaction(user, copies, 10)
  \/ IssueOffer(BucketMs, 2 * BucketMs)
  \/ \E o \in offers : RoomForBooking /\ StartRedeem(1, 1, o, "none")
  \/ RoomForBooking /\ StartCustom(1, 2, 2, BucketMs, 2 * BucketMs)
  \/ LookupUnit(1)
  \/ CheckCapacity(1)
  \/ InsertBooking(1)
  \/ \E bid \in 1..MaxBookings : StartCancel(1, 1, bid)
  \/ CancelUpdate(1)

SpecCredit == Init /\ [][NextCredit]_vars

(* subscribers connect while clients book and cancel and time passes *)
ReplayRanges ==
  { <<BucketMs, BucketMs + BucketMs \div 2>>, <<BucketMs, 2 * BucketMs>>,
    <<BucketMs + BucketMs \div 2, 2 * BucketMs>> }

NextReplay ==
  \/ sendExistingSlots
  \/ \E t \in TimePoints : Tick(t)
  \/ \E user \in Users, unit \in Units, r \in ReplayRanges :
        RoomForBooking /\ StartCustom(1, user, unit, r[1], r[2])
  \/ LookupUnit(1)
  \/ InsertBooking(1)
  \/ \E user \in Users, bid \in 1..MaxBookings : StartCancel(1, user, bid)
  \/ CancelUpdate(1)

SpecReplay == Init /\ [][NextReplay]_vars

(* one usage report, submitted by two requests that may run side by side *)
SameReport == [copies |-> 40, stencils |-> 10]

NextRisoRace ==
  \/ \E user \in Users, amount \in PurchaseAmounts : Purchase(user, amount)
  \/ \E w \in Workers, user \in Users :
        RoomForUsage /\ BeginIngest(w, user, SameReport.copies, SameReport.stencils)
  \/ \E w \in Workers : InsertUsage(w)
  \/ \E w \in Workers : DebitUsage(w)
  \/ \E w \in Workers : UpdateTotals(w)

SpecRisoRace == Init /\ [][NextRisoRace]_vars

(* ------------------------------ properties ----------------------------- *)
\* confirmed bookings of unit u whose slot contains instant t
ConfirmedAt(u, t) ==
  { i \in BookingIds :
      /\ bookings[i].unit = u
      /\ bookings[i].status = "confirmed"
      /\ Contains(bookings[i].lo, bookings[i].hi, t) }

\* C1: after any interleaving of redemptions, custom bookings and
\* cancellations, for every unit and every instant the number of confirmed
\* bookings whose slot contains the instant is at most the unit's capacity.
\* (Every slot starts and ends in TimePoints, so the count only changes there.)
C1_CapacityNeverExceeded ==
  \A u \in Units, t \in TimePoints : Cardinality(ConfirmedAt(u, t)) <= UnitCapacity(u)

\* a unit is at its capacity at some instant, after a cancellation freed a
\* slot and while a further booking of the unit has been turned away
C1_FullUnitRefusedBooking ==
  /\ \E u \in Units, t \in TimePoints : Cardinality(ConfirmedAt(u, t)) = UnitCapacity(u)
  /\ \E i \in BookingIds : bookings[i].status = "cancelled"
  /\ \E p \in Procs : proc[p].pc = "done" /\ proc[p].res \in {"exclusion", "unavailable"}

\* the blackouts of unit u that overlap [lo, hi)
BlackoutsOver(u, lo, hi) ==
  { bo \in blackouts : bo.unit = u /\ Overlaps(bo.lo, bo.hi, lo, hi) }

\* C2: neither booking entry point ever inserts a confirmed booking whose
\* slot overlaps a blackout period that exists on the same unit when the
\* booking is inserted.
C2_NoBookingOverBlackout ==
  [][\A i \in 1..Len(bookings') :
        i > Len(bookings) =>
          BlackoutsOver(bookings'[i].unit, bookings'[i].lo, bookings'[i].hi) = {}]_vars

\* a custom booking has been confirmed over a blackout of its unit that is
\* still in place
C2_CustomBookingOverBlackout ==
  \E i \in BookingIds :
     /\ bookings[i].status = "confirmed"
     /\ BlackoutsOver(bookings[i].unit, bookings[i].lo, bookings[i].hi) # {}
     /\ proc[1].pc = "done" /\ proc[1].kind = "custom" /\ proc[1].row = i

\* the racers all began before any of them ended
RaceOver == \A r \in Racers : proc[r].pc = "done" /\ proc[r].conc

Winners == { r \in Racers : proc[r].res = "ok" }

\* C3: when more redemptions than the unit's capacity run concurrently for
\* one unit and bucket with no prior booking there, exactly `capacity` of
\* them succeed and the others fail as having lost the race (the capacity
\* re-check or the exclusion constraint turned them away).
C3_ExactlyCapacitySucceed ==
  RaceOver =>
    \A o \in offers :
       NumRacers > UnitCapacity(o.sig.unit) =>
         /\ Cardinality(Winners) = UnitCapacity(o.sig.unit)
         /\ \A r \in Racers \ Winners : proc[r].res \in {"unavailable", "exclusion"}

\* three concurrent redemptions on the unit of capacity two: a single one
\* succeeded, and one that passed the capacity re-check was turned away by
\* the exclusion constraint
C3_OneWinnerBelowCapacity ==
  /\ RaceOver
  /\ \E o \in offers : UnitCapacity(o.sig.unit) = 2
  /\ Cardinality(Winners) = 1
  /\ \E r \in Racers : proc[r].res = "exclusion"

\* C4: redeeming a well-formed, unexpired offer while nothing about its
\* unit has changed since the offer was issued (no booking, cancellation,
\* blackout or unit change) always succeeds and inserts one confirmed
\* booking for that unit and interval.
C4_FreshOfferRedeems ==
  \A p \in Procs :
     ( /\ proc[p].pc = "done" /\ proc[p].kind = "redeem"
       /\ ~proc[p].tampered /\ ~proc[p].expired /\ ~proc[p].negbal
       /\ proc[p].fresh )
     => /\ proc[p].res = "ok"
        /\ proc[p].row \in BookingIds
        /\ bookings[proc[p].row].status = "confirmed"

\* a fresh, unexpired, unaltered offer was turned away by the exclusion
\* constraint
C4_FreshOfferExcluded ==
  \E p \in Procs :
     /\ proc[p].pc = "done" /\ proc[p].kind = "redeem"
     /\ ~proc[p].tampered /\ ~proc[p].expired /\ proc[p].fresh
     /\ proc[p].res = "exclusion"

\* C5: redeeming an offer again after its first redemption succeeded fails
\* with 'Slot no longer available' and inserts no second booking (an
\* expired offer or a unit switched off in between fail in their own way).
C5_SecondRedemptionUnavailable ==
  \A p \in Procs :
     ( /\ proc[p].pc = "done" /\ proc[p].kind = "redeem"
       /\ proc[p].again /\ ~proc[p].tampered /\ ~proc[p].expired /\ ~proc[p].negbal
       /\ proc[p].res # "no_unit" )
     => proc[p].res = "unavailable" /\ proc[p].row = 0

\* a second redemption passed the capacity re-check and ended with the
\* error of the exclusion constraint
C5_SecondRedemptionExcluded ==
  \E p \in Procs :
     /\ proc[p].pc = "done" /\ proc[p].kind = "redeem"
     /\ proc[p].again /\ ~proc[p].expired
     /\ proc[p].res = "exclusion"

\* request p has just been received
Received(p) == proc'[p] # proc[p] /\ proc[p].pc \in {"idle", "done"}

\* C6: an offer presented with a start, end, unit or price that differs
\* from the signed one is rejected by the verification and inserts no
\* booking; one differing field is enough.
C6_TamperedOfferRejected ==
  [][\A p \in Procs :
        Received(p) /\ proc'[p].tampered /\ ~proc'[p].negbal
          => /\ proc'[p].pc = "done"
             /\ proc'[p].res = "invalid_sig"
             /\ bookings' = bookings
             /\ sent' = sent]_vars

\* an unexpired offer with one field altered has been rejected
C6_UnexpiredTamperedRejected ==
  \E p \in Procs :
     /\ proc[p].pc = "done" /\ proc[p].kind = "redeem"
     /\ proc[p].tampered /\ ~proc[p].expired /\ ~proc[p].late
     /\ proc[p].res = "invalid_sig"

\* C7: an offer presented more than 15 minutes after it was issued is
\* rejected ('Invalid or expired slot signature') and inserts no booking.
C7_LateOfferRejected ==
  [][\A p \in Procs :
        Received(p) /\ proc'[p].late /\ ~proc'[p].negbal
          => /\ proc'[p].pc = "done"
             /\ proc'[p].res = "invalid_sig"
             /\ bookings' = bookings
             /\ sent' = sent]_vars

\* an unaltered offer has been rejected for its age alone, while its unit
\* was active and its slot still free
C7_UnalteredLateRejected ==
  \E p \in Procs :
     /\ proc[p].pc = "done" /\ proc[p].kind = "redeem"
     /\ proc[p].late /\ ~proc[p].tampered
     /\ proc[p].res = "invalid_sig"
     /\ \A u \in Units : unitActive[u]
     /\ bookings = <<>>

\* C8: a user whose balance is negative is rejected by both entry points
\* before the signature is verified, the unit looked up or the capacity
\* checked, and no booking is inserted.
C8_NegativeBalanceRejected ==
  [][\A p \in Procs :
        Received(p) /\ proc'[p].negbal
          => /\ proc'[p].pc = "done"
             /\ proc'[p].res = "402"
             /\ bookings' = bookings
             /\ sent' = sent]_vars

\* both entry points have answered 402 to the user in debt: one for an
\* altered offer, one for a custom range, while the other user booked
C8_BothEntryPointsGated ==
  /\ proc[1].pc = "done" /\ proc[1].negbal /\ proc[1].res = "402"
  /\ proc[1].kind = "redeem" /\ proc[1].tampered
  /\ proc[2].pc = "done" /\ proc[2].res = "ok"
  /\ \A i \in BookingIds : bookings[i].user = 2

\* the booking that cancel request p names is a confirmed booking of the
\* request's user
OwnConfirmed(p) ==
  \E i \in BookingIds :
     i = proc[p].bid /\ bookings[i].user = proc[p].user /\ bookings[i].status = "confirmed"

\* C9: cancelBooking returns true and sets the status to cancelled only when
\* the booking exists, belongs to the user and is confirmed at that moment;
\* for a missing, foreign or already cancelled booking it returns false
\* without throwing, changes no booking and emits no notification.
C9_CancelOnlyOwnConfirmed ==
  [][\A p \in Procs :
        /\ (Received(p) /\ proc'[p].kind = "cancel" /\ ~proc'[p].eligible)
             => /\ proc'[p].pc = "done" /\ proc'[p].res = "false"
                /\ bookings' = bookings /\ sent' = sent
        /\ (proc[p].pc = "update" /\ proc'[p].pc = "done" /\ OwnConfirmed(p))
             => (proc'[p].res = "true" => bookings'[proc[p].bid].status = "cancelled")
        /\ (proc[p].pc = "update" /\ proc'[p].pc = "done" /\ ~OwnConfirmed(p))
             => /\ proc'[p].res = "false"
                /\ bookings' = bookings /\ sent' = sent]_vars

\* two cancellations of one booking have both returned true, and two
\* removeAccess messages were sent for its single addAccess
C9_CancelledTwice ==
  /\ \A p \in Procs : proc[p].pc = "done" /\ proc[p].kind = "cancel" /\ proc[p].res = "true"
  /\ proc[1].row = proc[2].row
  /\ Cardinality({ k \in 1..Len(sent) : sent[k].kind = "removeAccess" }) = 2
  /\ Cardinality({ k \in 1..Len(sent) : sent[k].kind = "addAccess" }) = 1

\* the balance a user has, a missing row counting as zero
BalanceBefore(u) == IF balance[u] = NoRow THEN 0 ELSE balance[u][1]

\* C10: appending a credit transaction whose amount would make the user's
\* balance negative fails as a whole: no transaction row and no balance
\* change persist, the balance after the attempt is the balance before it.
C10_OverdraftLeavesNoTrace ==
  [][(lastCredit' # lastCredit /\ BalanceBefore(lastCredit'.user) + lastCredit'.amount < 0)
        => /\ lastCredit'.raised
           /\ creditTx' = creditTx
           /\ balance' = balance]_vars

\* a usage charge above a positive balance has been refused, and so has a
\* charge to a user who has no balance row
C10_OverdraftRefused ==
  /\ lastCredit.raised /\ lastCredit.kind = "usage_charge"
  /\ \E u \in Users : balance[u] # NoRow /\ Cents(balance[u]) > 0
  /\ balance[lastCredit.user] = NoRow
  /\ Len(creditTx) > 0

\* the sum of the amounts of the first n accepted transactions that are
\* user u's
RECURSIVE LedgerSum(_, _)
LedgerSum(u, n) ==
  IF n = 0 THEN 0
  ELSE LedgerSum(u, n - 1) + (IF creditTx[n].user = u THEN creditTx[n].amount ELSE 0)

\* C11: in every reachable state each user's cached balance equals the sum
\* of the amounts of that user's accepted credit transactions (a user with
\* no balance row has no transaction), also when several writers append for
\* the same user at once.
C11_BalanceIsLedgerSum ==
  \A u \in Users :
     IF balance[u] = NoRow
     THEN \A k \in 1..Len(creditTx) : creditTx[k].user # u
     ELSE Cents(balance[u]) = LedgerSum(u, Len(creditTx))

\* two writers appended for one user at the same time, a purchase and a
\* charge, and both were accepted
C11_ConcurrentAppendsAccepted ==
  /\ \A w \in Workers : job[w].pc = "done" /\ job[w].res = "ok" /\ job[w].user = 1
  /\ \E w \in Workers : job[w].conc
  /\ \E w \in Workers : job[w].kind = "usage_charge"
  /\ \E w \in Workers : job[w].kind = "purchase"
  /\ Len(creditTx) = MaxCreditTx

\* C12: two concurrent debits of one user that each fit within the balance
\* but together exceed it are never both accepted: the running sum of a
\* user's accepted transactions, in the order of acceptance, never falls
\* below zero.
C12_RunningSumNeverNegative ==
  \A u \in Users, n \in 0..Len(creditTx) : LedgerSum(u, n) >= 0

\* two debits of one user ran at the same time, each within the balance
\* they found; one was accepted and the other refused
C12_OneOfTwoDebitsRefused ==
  /\ \A w \in Workers :
        job[w].pc = "done" /\ job[w].kind = "usage_charge" /\ job[w].user = 1 /\ job[w].fits
  /\ \E w \in Workers : job[w].conc
  /\ \E w \in Workers : job[w].res = "ok"
  /\ \E w \in Workers : job[w].res = "raised"

\* worker w takes a step of a usage ingestion it has begun
IngestStep(w) == job[w].kind = "ingest" /\ job[w].pc # "done" /\ job'[w] # job[w]

\* C13: ingesting a report with the same counters for a user a second time,
\* after the first ingestion has ended, creates no usage record and no
\* ledger debit, for a normal report and for one handled as a reset.
C13_RepeatedReportBillsNothing ==
  [][\A w \in Workers :
        IngestStep(w) /\ job[w].again => usages' = usages /\ creditTx' = creditTx]_vars

\* a report whose debit the ledger refused has been ingested again, and
\* two usage records stand for the one unpaid delta
C13_RepeatedReportRecordedTwice ==
  /\ job[1].pc = "done" /\ job[1].kind = "ingest" /\ job[1].again /\ job[1].res = "error"
  /\ Len(usages) = 2
  /\ usages[1] = usages[2]
  /\ creditTx = <<>>

\* the quantity the reset formula gives for one counter
ResetBill(lastSeenValue, billedValue, reported) ==
  (IF lastSeenValue > billedValue THEN lastSeenValue - billedValue ELSE 0) + reported

\* worker w inserts its usage record
RecordsUsage(w) == job[w].pc = "riso_usage" /\ job'[w].pc = "riso_debit"

\* C14: when a reported counter is strictly below its last-seen value, the
\* quantity billed for that counter is max(0, lastSeen - cumulativeBilled)
\* plus the reported value, and it is never negative.
C14_ResetBillsRemainderPlusReported ==
  [][\A w \in Workers :
        RecordsUsage(w) =>
          LET seen == job[w].seen
              rec == usages'[Len(usages')]
          IN /\ Len(usages') = Len(usages) + 1
             /\ (seen # NoRow /\ job[w].copies < seen[1].copies)
                  => /\ rec.copies = ResetBill(seen[1].copies, seen[1].billedCopies, job[w].copies)
                     /\ rec.copies >= 0
             /\ (seen # NoRow /\ job[w].stencils < seen[1].stencils)
                  => /\ rec.stencils =
                          ResetBill(seen[1].stencils, seen[1].billedStencils, job[w].stencils)
                     /\ rec.stencils >= 0]_vars

\* last-seen copies 100, billed 100, reported copies 40: 40 copies were
\* recorded and debited
C14_Reset100To40Bills40 ==
  /\ job[1].pc = "done" /\ job[1].kind = "ingest" /\ job[1].res = "ok"
  /\ job[1].seen # NoRow
  /\ lastSeenCopies(job[1].seen) = 100 /\ cumulativeCopiesBilled(job[1].seen) = 100
  /\ job[1].copies = 40
  /\ usages # <<>> /\ usages[Len(usages)].copies = 40
  /\ lastCredit.kind = "usage_charge" /\ ~lastCredit.raised
  /\ lastCredit.amount = -(40 * copyPriceCents + usages[Len(usages)].stencils * stencilPriceCents)

\* C15: reset handling is per counter: when only one of copies and stencils
\* is below its last-seen value, the counter that did not decrease is
\* billed its difference new - lastSeen.
C15_OtherCounterBilledItsDifference ==
  \A w \in Workers :
     (job[w].kind = "ingest" /\ job[w].seen # NoRow) =>
        LET seen == job[w].seen[1]
        IN /\ (job[w].copies < seen.copies /\ job[w].stencils >= seen.stencils)
                => job[w].billStencils = job[w].stencils - seen.stencils
           /\ (job[w].stencils < seen.stencils /\ job[w].copies >= seen.copies)
                => job[w].billCopies = job[w].copies - seen.copies

\* copies fell from 100 to 40 while stencils rose from 10 to 12: 12
\* stencils were recorded, not 2
C15_UnresetCounterBilledInFull ==
  /\ job[1].pc = "done" /\ job[1].kind = "ingest" /\ job[1].seen # NoRow
  /\ lastSeenCopies(job[1].seen) = 100 /\ job[1].copies = 40
  /\ lastSeenStencils(job[1].seen) = 10 /\ job[1].stencils = 12
  /\ usages # <<>> /\ usages[Len(usages)].stencils = 12

(* ---------------------------- capacity query --------------------------- *)
ConfirmedOver(u, lo, hi) ==
  { i \in BookingIds :
      /\ bookings[i].unit = u
      /\ bookings[i].status = "confirmed"
      /\ bookings[i].lo < bookings[i].hi
      /\ bookings[i].lo < hi
      /\ lo < bookings[i].hi }

\* the reply on the screen is the answer to its window in this state
FreshCapacityReply ==
  /\ reply.query = "capacity"
  /\ reply.rows = remainingSql(reply.lo, reply.hi)

\* C16: in every state and for every window, each row of the capacity
\* query has remaining > 0, an active unit, a bucket that no blackout of the
\* unit overlaps, and remaining plus the confirmed bookings of the unit
\* overlapping the bucket is at most the unit's capacity.
C16_RowsAreBookable ==
  \A w \in CapacityWindows :
    \A r \in remainingSql(w[1], w[2]) :
      /\ r.remaining > 0
      /\ unitActive[r.unit]
      /\ \A bo \in blackouts :
            bo.unit = r.unit => (bo.hi <= r.bucket \/ r.bucket + BucketMs <= bo.lo \/ bo.lo >= bo.hi)
      /\ r.remaining + Cardinality(ConfirmedOver(r.unit, r.bucket, r.bucket + BucketMs))
            <= UnitCapacity(r.unit)

\* a query answered while one unit has a blacked-out bucket in the window,
\* which is left out, and another row counts a confirmed booking
C16_BlackoutLeftOutBookingCounted ==
  /\ FreshCapacityReply
  /\ reply.lo = BucketMs /\ reply.hi = 3 * BucketMs
  /\ \E bo \in blackouts :
        /\ unitActive[bo.unit]
        /\ ~\E r \in reply.rows : r.unit = bo.unit /\ r.bucket = 2 * BucketMs
  /\ \E r \in reply.rows :
        /\ r.remaining < UnitCapacity(r.unit)
        /\ ConfirmedOver(r.unit, r.bucket, r.bucket + BucketMs) # {}

\* the remaining capacity the query reports for a bucket of a unit, 0 when
\* it reports no row for them
Reported(w, g, u) ==
  LET rows == { r \in remainingSql(w[1], w[2]) : r.bucket = g /\ r.unit = u }
  IN IF rows = {} THEN 0 ELSE (CHOOSE r \in rows : TRUE).remaining

BucketGrid == { BucketMs, 2 * BucketMs }

\* C17: when a booking of one aligned 30-minute bucket is inserted, every
\* window's query that reported that bucket of that unit reports it with 1
\* less afterwards (no row once nothing remains), and reports the same as
\* before for every other bucket and every other unit.
C17_BookingLowersOneBucketByOne ==
  [][ (Len(bookings') = Len(bookings) + 1
        /\ bookings'[Len(bookings')].lo \in BucketGrid
        /\ bookings'[Len(bookings')].hi = bookings'[Len(bookings')].lo + BucketMs)
      => \A w \in CapacityWindows : \A g \in BucketGrid, u \in Units :
           IF g = bookings'[Len(bookings')].lo /\ u = bookings'[Len(bookings')].unit
           THEN Reported(w, g, u) > 0 => Reported(w, g, u)' = Reported(w, g, u) - 1
           ELSE Reported(w, g, u)' = Reported(w, g, u) ]_vars

\* the unit of capacity 2 with its first bucket booked: the two buckets of
\* the window read 1 and 2
C17_Reads1And2AfterBooking ==
  /\ FreshCapacityReply
  /\ reply.lo = BucketMs /\ reply.hi = 3 * BucketMs
  /\ proc[1].pc = "done" /\ proc[1].kind = "redeem" /\ proc[1].res = "ok"
  /\ \E i \in BookingIds :
        /\ bookings[i].unit = 2 /\ bookings[i].status = "confirmed"
        /\ bookings[i].lo = BucketMs /\ bookings[i].hi = 2 * BucketMs
  /\ [bucket |-> BucketMs, unit |-> 2, remaining |-> 1] \in reply.rows
  /\ [bucket |-> 2 * BucketMs, unit |-> 2, remaining |-> 2] \in reply.rows

\* a bucket of a unit that nothing keeps out of the answer: the unit is
\* active, no blackout of it and no confirmed booking on it overlaps
Unhindered(g, u) ==
  /\ unitActive[u]
  /\ \A bo \in blackouts :
        bo.unit = u => (bo.hi <= g \/ g + BucketMs <= bo.lo \/ bo.lo >= bo.hi)
  /\ ConfirmedOver(u, g, g + BucketMs) = {}

\* C18: the answer to a window with start < end has a row for every
\* aligned bucket that intersects the window (and that nothing keeps out),
\* the last one included when the end is off the 30-minute grid, and the
\* only one when the window is shorter than 30 minutes.
C18_EveryIntersectingBucketListed ==
  (FreshCapacityReply /\ reply.lo < reply.hi)
    => \A g \in BucketGrid, u \in Units :
         (g < reply.hi /\ reply.lo < g + BucketMs /\ Unhindered(g, u))
           => \E r \in reply.rows : r.bucket = g /\ r.unit = u

\* the window of one bucket and a half answered with the first bucket only
C18_LastPartialBucketMissing ==
  /\ FreshCapacityReply
  /\ reply.lo = BucketMs /\ reply.hi = 2 * BucketMs + BucketMs \div 2
  /\ Unhindered(2 * BucketMs, 1)
  /\ \E r \in reply.rows : r.bucket = BucketMs /\ r.unit = 1
  /\ ~\E r \in reply.rows : r.bucket = 2 * BucketMs

(* ----------------------------- density query --------------------------- *)
\* the reply on the screen is the answer to its window in this state
FreshDensityReply ==
  /\ reply.query = "density"
  /\ ~reply.error
  /\ unitActive[reply.unit]
  /\ reply.intervals = getBookingDensity(reply.unit, reply.lo, reply.hi)

\* instants a quarter of a bucket apart
Instants == { k * (BucketMs \div 4) : k \in 4..12 }

RECURSIVE WeightedLength(_, _)
WeightedLength(ivs, n) ==
  IF n = 0 THEN 0
  ELSE (ivs[n].endTime - ivs[n].startTime) * ivs[n].bookedCount + WeightedLength(ivs, n - 1)

Clip(lo, hi, start, end) ==
  (IF hi < end THEN hi ELSE end) - (IF lo > start THEN lo ELSE start)

RECURSIVE BookedTime(_, _, _)
BookedTime(ids, start, end) ==
  IF ids = {} THEN 0
  ELSE LET i == CHOOSE x \in ids : TRUE
       IN Clip(bookings[i].lo, bookings[i].hi, start, end) + BookedTime(ids \ {i}, start, end)

\* C19: in the answer of the density query, the bookedCount of an interval
\* is, at every instant inside the interval, the number of confirmed
\* bookings of the unit whose slot contains the instant; and the intervals'
\* lengths weighted by their counts add up to the time inside the window
\* covered by the overlapping confirmed bookings of the unit.
C19_CountIsBookingsAtEachInstant ==
  FreshDensityReply =>
    /\ \A n \in 1..Len(reply.intervals) : \A t \in Instants :
          (reply.intervals[n].startTime <= t /\ t < reply.intervals[n].endTime)
            => reply.intervals[n].bookedCount = Cardinality(ConfirmedAt(reply.unit, t))
    /\ WeightedLength(reply.intervals, Len(reply.intervals))
          = BookedTime(ConfirmedOver(reply.unit, reply.lo, reply.hi), reply.lo, reply.hi)

\* two buckets asked about while the first half of the first and the whole
\* second are booked: counts 1, 0, 1
C19_BookedFreeBooked ==
  /\ FreshDensityReply
  /\ reply.lo = BucketMs /\ reply.hi = 3 * BucketMs
  /\ reply.intervals =
       << [startTime |-> BucketMs, endTime |-> BucketMs + BucketMs \div 2, bookedCount |-> 1],
          [startTime |-> BucketMs + BucketMs \div 2, endTime |-> 2 * BucketMs, bookedCount |-> 0],
          [startTime |-> 2 * BucketMs, endTime |-> 3 * BucketMs, bookedCount |-> 1] >>

\* C20: the intervals of a density answer for a window with start < end
\* are ascending and contiguous, the first starts at the window start and
\* the last ends at the window end, so every instant of the window lies in
\* exactly one interval; with no confirmed booking of the unit overlapping
\* the window there is one interval, the window, with count 0.
C20_IntervalsTileTheWindow ==
  (FreshDensityReply /\ reply.lo < reply.hi) =>
    LET ivs == reply.intervals
    IN /\ Len(ivs) >= 1
       /\ ivs[1].startTime = reply.lo
       /\ ivs[Len(ivs)].endTime = reply.hi
       /\ \A n \in 1..Len(ivs) : ivs[n].startTime < ivs[n].endTime
       /\ \A n \in 1..(Len(ivs) - 1) : ivs[n].endTime = ivs[n + 1].startTime
       /\ \A t \in Instants :
             (reply.lo <= t /\ t < reply.hi)
               => Cardinality({ n \in 1..Len(ivs) :
                                  ivs[n].startTime <= t /\ t < ivs[n].endTime }) = 1
       /\ ConfirmedOver(reply.unit, reply.lo, reply.hi) = {}
             => ivs = <<[startTime |-> reply.lo, endTime |-> reply.hi, bookedCount |-> 0]>>

\* a window that starts free and ends booked, next to a cancelled booking
\* and a booking of the other unit: the free stretch is reported with 0
C20_FreeStretchReported ==
  /\ FreshDensityReply
  /\ reply.lo = BucketMs + BucketMs \div 2 /\ reply.hi = 3 * BucketMs
  /\ \E i \in BookingIds : bookings[i].unit # reply.unit \/ bookings[i].status = "cancelled"
  /\ reply.intervals =
       << [startTime |-> BucketMs + BucketMs \div 2, endTime |-> 2 * BucketMs, bookedCount |-> 0],
          [startTime |-> 2 * BucketMs, endTime |-> 3 * BucketMs, bookedCount |-> 1] >>

(* --------------------- failures and notifications ---------------------- *)
BookingRequest(r) == r.pc = "done" /\ r.kind \in {"redeem", "custom"}

\* C21: a booking request (redemption or custom range) whose insert the
\* exclusion constraint rejected is answered like a lost capacity race:
\* status 400 with the error 'Slot no longer available'.
C21_ExclusionAnsweredAsUnavailable ==
  \A p \in AllProcs :
     (BookingRequest(proc[p]) /\ proc[p].res = "exclusion")
       => /\ replyCode(proc[p].res) = 400
          /\ replyError(proc[p].res) = replyError("unavailable")

\* a custom-range booking over an existing row of the unit was answered
\* with the message of the storage error
C21_CustomAnsweredWithStorageError ==
  \E p \in Procs :
     /\ BookingRequest(proc[p]) /\ proc[p].kind = "custom"
     /\ proc[p].res = "exclusion"
     /\ replyCode(proc[p].res) = 400
     /\ replyError(proc[p].res) # "Slot no longer available"
     /\ bookings # <<>>

\* C22: a booking or cancellation whose notification could not be
\* delivered (socket.send threw) is committed and reports success all the
\* same.
C22_UndeliveredStillSucceeds ==
  [][\A p \in AllProcs :
        (proc'[p].pc = "done" /\ proc[p].pc # "done" /\ proc'[p].undelivered)
          => /\ proc'[p].res \in {"ok", "true"}
             /\ bookings' # bookings]_vars

\* a cancellation failed and left the booking confirmed because a send threw
C22_CancellationRolledBack ==
  /\ proc[1].pc = "done" /\ proc[1].kind = "cancel" /\ proc[1].undelivered
  /\ proc[1].res = "send_threw"
  /\ \A i \in BookingIds : bookings[i].status = "confirmed"
  /\ bookings # <<>>

(* ------------------------- the bookings table -------------------------- *)
NoOverlappingConfirmed ==
  \A i \in BookingIds : \A j \in BookingIds :
     ( /\ i < j
       /\ bookings[i].unit = bookings[j].unit
       /\ bookings[i].status = "confirmed" /\ bookings[j].status = "confirmed" )
     => ~( /\ bookings[i].lo < bookings[i].hi /\ bookings[j].lo < bookings[j].hi
           /\ bookings[i].lo < bookings[j].hi /\ bookings[j].lo < bookings[i].hi )

\* C23: no two confirmed bookings of a unit ever overlap, whatever the
\* unit's capacity; an insert whose slot overlaps a confirmed booking of
\* the unit is rejected and adds no row, also after the capacity re-check
\* let it through.
C23_ConfirmedNeverOverlap ==
  [][ /\ NoOverlappingConfirmed'
      /\ \A p \in AllProcs :
           ( /\ proc[p].pc = "insert" /\ proc'[p].pc = "done"
             /\ ConfirmedOver(proc[p].unit, proc[p].lo, proc[p].hi) # {}
             /\ proc[p].lo < proc[p].hi )
           => proc'[p].res = "exclusion" /\ bookings' = bookings ]_vars

\* a redemption that passed the capacity re-check on the unit of capacity 2
\* was rejected by the constraint
C23_RecheckedRedemptionRejected ==
  /\ proc[1].pc = "done" /\ proc[1].kind = "redeem" /\ proc[1].res = "exclusion"
  /\ bookings # <<>>
  /\ \A i \in BookingIds : bookings[i].status = "confirmed" /\ bookings[i].unit = 2

\* C24: the exclusion constraint applies among confirmed bookings only: an
\* insert of a well-formed slot that overlaps no confirmed booking of its
\* unit (cancelled ones may overlap) is accepted.
C24_CancelledSlotCanBeRebooked ==
  [][ \A p \in AllProcs :
        ( /\ proc[p].pc = "insert" /\ proc'[p].pc = "done"
          /\ proc[p].lo < proc[p].hi
          /\ wsThrows = 0
          /\ ConfirmedOver(proc[p].unit, proc[p].lo, proc[p].hi) = {} )
        => /\ proc'[p].res = "ok"
           /\ Len(bookings') = Len(bookings) + 1 ]_vars

\* every booking is cancelled, and a booking request was turned away by the
\* exclusion constraint all the same
C24_CancelledRowStillExcludes ==
  /\ proc[1].pc = "done" /\ proc[1].kind \in {"redeem", "custom"}
  /\ proc[1].res = "exclusion"
  /\ bookings # <<>>
  /\ \A i \in BookingIds : bookings[i].status = "cancelled"

\* C25: every step keeps every booking row, with its user, unit and slot;
\* a row's status either stays as it is or goes from confirmed to
\* cancelled.
C25_StatusOnlyConfirmedToCancelled ==
  [][ /\ Len(bookings') >= Len(bookings)
      /\ \A i \in BookingIds :
           /\ bookings'[i].user = bookings[i].user
           /\ bookings'[i].unit = bookings[i].unit
           /\ bookings'[i].lo = bookings[i].lo
           /\ bookings'[i].hi = bookings[i].hi
           /\ \/ bookings'[i].status = bookings[i].status
              \/ bookings[i].status = "confirmed" /\ bookings'[i].status = "cancelled" ]_vars

\* a cancelled row next to a row inserted after the cancellation
C25_CancelledRowKept ==
  /\ Len(bookings) = 2
  /\ bookings[1].status = "cancelled" /\ bookings[1].user = 1
  /\ bookings[2].status = "confirmed"
  /\ proc[1].pc = "done" /\ proc[1].kind \in {"redeem", "custom"} /\ proc[1].res = "ok"

\* C26: a redemption or custom-range booking that ends in failure, at
\* whichever step, leaves the bookings as they were and hands no addAccess
\* message to any subscriber.
C26_FailedBookingLeavesNoTrace ==
  [][ \A p \in AllProcs :
        ( /\ proc[p].pc # "done" /\ proc'[p].pc = "done"
          /\ proc'[p].kind \in {"redeem", "custom"}
          /\ proc'[p].res # "ok" )
        => bookings' = bookings /\ sent' = sent ]_vars

\* the booking failed and was rolled back, and the first subscriber holds
\* its addAccess message
C26_AddAccessForRolledBackBooking ==
  /\ proc[1].pc = "done" /\ proc[1].kind \in {"redeem", "custom"}
  /\ proc[1].res = "send_threw"
  /\ bookings = <<>>
  /\ \E n \in 1..Len(sent) : sent[n].kind = "addAccess"

\* nothing is left of the bucket of the unit: the unit is inactive, a
\* blackout of it overlaps the bucket, or as many confirmed bookings as its
\* capacity overlap the bucket
NothingLeft(u, g) ==
  \/ ~unitActive[u]
  \/ \E bo \in blackouts :
       bo.unit = u /\ bo.lo < bo.hi /\ bo.lo < g + BucketMs /\ g < bo.hi
  \/ Cardinality(ConfirmedOver(u, g, g + BucketMs)) >= UnitCapacity(u)

\* C27: a redemption with a valid, unexpired signature whose unit and
\* bucket have nothing left when the capacity is derived again ends with
\* 'Slot no longer available' and inserts no booking.
C27_RecheckRefusesExhaustedBucket ==
  [][ \A p \in AllProcs :
        ( /\ proc[p].pc = "check" /\ proc'[p] # proc[p]
          /\ NothingLeft(proc[p].unit, proc[p].lo) )
        => /\ proc'[p].pc = "done"
           /\ proc'[p].res = "unavailable"
           /\ replyError(proc'[p].res) = "Slot no longer available"
           /\ bookings' = bookings ]_vars

\* an unaltered, unexpired offer was refused at redemption while a
\* blackout exists and nothing is booked
C27_RefusedAfterBlackout ==
  /\ proc[1].pc = "done" /\ proc[1].kind = "redeem" /\ proc[1].res = "unavailable"
  /\ ~proc[1].expired /\ ~proc[1].tampered
  /\ blackouts # {}
  /\ bookings = <<>>
  /\ \A u \in Units : unitActive[u]

(* ------------------------ usage reconciliation ------------------------- *)
\* the last-seen values an ingestion read, 0 for a user without a row
SeenValue(seen, column) == IF Len(seen) = 0 THEN 0 ELSE seen[1][column]

\* C28: an ingestion that has ended and whose reported counters were both
\* at least the last-seen values it read has billed new - lastSeen for
\* copies and for stencils, and the user's stored totals are the reported
\* counters and the cumulative billed totals increased by what was billed.
C28_NormalReportBillsDifferenceAndStores ==
  \A w \in Workers :
     ( /\ job[w].pc = "done" /\ job[w].kind = "ingest"
       /\ job[w].copies >= SeenValue(job[w].seen, "copies")
       /\ job[w].stencils >= SeenValue(job[w].seen, "stencils") )
     => /\ job[w].billCopies = job[w].copies - SeenValue(job[w].seen, "copies")
        /\ job[w].billStencils = job[w].stencils - SeenValue(job[w].seen, "stencils")
        /\ lastSeen[job[w].user] =
             << [copies |-> job[w].copies, stencils |-> job[w].stencils,
                 billedCopies |-> SeenValue(job[w].seen, "billedCopies") + job[w].billCopies,
                 billedStencils |-> SeenValue(job[w].seen, "billedStencils") + job[w].billStencils] >>

\* a first report of 40 copies and 10 stencils was recorded as usage, its
\* debit was refused, and no totals were stored
C28_UnpaidReportNotStored ==
  /\ job[1].pc = "done" /\ job[1].kind = "ingest" /\ job[1].res = "error"
  /\ job[1].seen = NoRow /\ job[1].copies = 40 /\ job[1].stencils = 10
  /\ job[1].billCopies = 40 /\ job[1].billStencils = 10
  /\ lastSeen[job[1].user] = NoRow
  /\ usages # <<>>
  /\ lastCredit.raised

(* ---------------------------- access messages -------------------------- *)
\* C29: every removeAccess message follows an addAccess message with the
\* same code, start and stop, and stands for a booking row of that user and
\* slot: none is emitted for a booking that was never confirmed.
C29_RemoveAccessMatchesAddAccess ==
  \A k \in 1..Len(sent) :
     sent[k].kind = "removeAccess" =>
       /\ \E j \in 1..(k - 1) :
            /\ sent[j].kind = "addAccess"
            /\ sent[j].code = sent[k].code
            /\ sent[j].start = sent[k].start
            /\ sent[j].stop = sent[k].stop
       /\ \E i \in BookingIds :
            /\ bookings[i].user = sent[k].code
            /\ bookings[i].lo = sent[k].start
            /\ bookings[i].hi = sent[k].stop
            /\ bookings[i].status = "cancelled"

\* a custom booking of half a bucket was cancelled: its two messages name
\* the same half bucket
C29_HalfBucketAddedAndRemoved ==
  /\ proc[1].pc = "done" /\ proc[1].kind = "cancel" /\ proc[1].res = "true"
  /\ Len(sent) = 2
  /\ sent[1] = [kind |-> "addAccess", code |-> 1, start |-> BucketMs,
                stop |-> BucketMs + BucketMs \div 2]
  /\ sent[2] = [kind |-> "removeAccess", code |-> 1, start |-> BucketMs,
                stop |-> BucketMs + BucketMs \div 2]

\* C30: a custom-range booking whose end is not after its start (empty or
\* inverted) is rejected and inserts no booking.
C30_EmptyOrInvertedRangeRejected ==
  [][ \A p \in AllProcs :
        ( /\ proc[p].kind = "custom" /\ proc[p].pc # "done" /\ proc'[p].pc = "done"
          /\ proc[p].hi <= proc[p].lo )
        => /\ proc'[p].res # "ok"
           /\ replyCode(proc'[p].res) = 400
           /\ bookings' = bookings ]_vars

\* a custom booking of an empty range was accepted and is a confirmed row
C30_EmptyRangeBooked ==
  /\ proc[1].pc = "done" /\ proc[1].kind = "custom" /\ proc[1].res = "ok"
  /\ proc[1].row \in BookingIds
  /\ bookings[proc[1].row].lo = bookings[proc[1].row].hi
  /\ bookings[proc[1].row].status = "confirmed"

(* ------------------------------ booking UI ----------------------------- *)
FreshCalendar ==
  /\ reply.query = "calendar"
  /\ reply.intervals = getBookingDensity(reply.unit, reply.lo, reply.hi)

\* C31: in the calendar, every 15-minute slot whose start an interval of
\* the density answer covers shows the bookedCount of that interval.
C31_SlotShowsCoveringInterval ==
  FreshCalendar =>
    \A i \in 0..(NumTimeSlots - 1) : \A n \in 1..Len(reply.intervals) :
       ( /\ reply.intervals[n].startTime <= DayStart + i * FIFTEEN_MINUTES
         /\ DayStart + i * FIFTEEN_MINUTES < reply.intervals[n].endTime )
       => reply.timeSlots[i] = reply.intervals[n].bookedCount

\* the slot that starts 15 minutes into the day is shown booked although
\* the only booking starts 20 minutes into the day
C31_FreeSlotShownBooked ==
  /\ FreshCalendar
  /\ Len(bookings) = 1
  /\ bookings[1].unit = reply.unit /\ bookings[1].status = "confirmed"
  /\ bookings[1].lo = OffGrid /\ bookings[1].hi = 2 * BucketMs
  /\ reply.intervals[1] = [startTime |-> DayStart, endTime |-> OffGrid, bookedCount |-> 0]
  /\ reply.timeSlots[1] = 1

(* ------------------------ concurrent cancellation ---------------------- *)
RemovalsSent == Cardinality({ k \in 1..Len(sent) : sent[k].kind = "removeAccess" })

CancelledRows == { i \in BookingIds : bookings[i].status = "cancelled" }

\* C32: of two concurrent cancelBooking calls of the owner on one confirmed
\* booking exactly one returns true and one removeAccess message is sent:
\* no two calls have returned true for one booking, and there are no more
\* removeAccess messages than cancelled bookings.
C32_OneCancelWins ==
  /\ \A p \in Procs : \A q \in Procs \ {p} :
        ( /\ proc[p].pc = "done" /\ proc[p].kind = "cancel" /\ proc[p].res = "true"
          /\ proc[q].pc = "done" /\ proc[q].kind = "cancel" /\ proc[q].res = "true" )
        => proc[p].row # proc[q].row
  /\ RemovalsSent <= Cardinality(CancelledRows)

\* both calls found the only booking confirmed, both updated it and both
\* returned true: the subscribers got addAccess, removeAccess, removeAccess
C32_BothCancelsReturnedTrue ==
  /\ Len(bookings) = 1 /\ bookings[1].status = "cancelled"
  /\ proc[1].pc = "done" /\ proc[1].res = "true" /\ proc[1].row = 1 /\ proc[1].eligible
  /\ proc[2].pc = "done" /\ proc[2].res = "true" /\ proc[2].row = 1 /\ proc[2].eligible
  /\ Len(sent) = 3
  /\ sent[1].kind = "addAccess" /\ sent[2].kind = "removeAccess" /\ sent[3] = sent[2]

(* ------------------------ concurrent ingestion ------------------------- *)
UsageDebits(u) ==
  { k \in 1..Len(creditTx) : creditTx[k].user = u /\ creditTx[k].kind = "usage_charge" }

\* C33: when one usage report is ingested by two concurrent requests, the
\* user's difference is debited once: however the requests interleave, the
\* ledger holds at most one usage charge of a user for the report.
C33_SameReportDebitedOnce ==
  \A u \in Users : Cardinality(UsageDebits(u)) <= 1

\* both requests read the totals before either wrote them: the report is
\* charged twice, and the second insert of the totals row has failed
C33_ReportDebitedTwice ==
  \E u \in Users :
    /\ Cardinality(UsageDebits(u)) = 2
    /\ \A w \in Workers : job[w].pc = "done" /\ job[w].user = u /\ job[w].seen = NoRow
    /\ \E w \in Workers : job[w].res = "ok"
    /\ \E w \in Workers : job[w].res = "error"
    /\ lastSeen[u] # NoRow /\ lastSeenCopies(lastSeen[u]) = SameReport.copies

(* ------------------------- usage and the ledger ------------------------ *)
\* the price of the usage records of user u among the first n
RECURSIVE RecordedCharges(_, _)
RecordedCharges(u, n) ==
  IF n = 0 THEN 0
  ELSE RecordedCharges(u, n - 1) +
       (IF usages[n].user = u
        THEN calculateUsageCharges(usages[n].copies, usages[n].stencils) ELSE 0)

\* what the usage charges among the first n ledger rows took from user u
RECURSIVE DebitedCharges(_, _)
DebitedCharges(u, n) ==
  IF n = 0 THEN 0
  ELSE DebitedCharges(u, n - 1) +
       (IF creditTx[n].user = u /\ creditTx[n].kind = "usage_charge"
        THEN -creditTx[n].amount ELSE 0)

\* C34: the usage record, the debit and the update of the totals of a user
\* are applied together or not at all: whenever no ingestion is under way,
\* the usage records of every user amount to what the ledger has debited
\* for usage, and a refused debit has left no usage record.
C34_UsageRecordsMatchDebits ==
  (\A w \in Workers : JobFree(w))
    => \A u \in Users : RecordedCharges(u, Len(usages)) = DebitedCharges(u, Len(creditTx))

\* a user with a balance of 2000 reported 100 copies and 12 stencils: the
\* debit of 2800 was refused and the usage record stays
C34_RecordWithoutDebit ==
  \E u \in Users :
    /\ job[1].pc = "done" /\ job[1].kind = "ingest" /\ job[1].user = u /\ job[1].res = "error"
    /\ balance[u] # NoRow /\ Cents(balance[u]) = 2000
    /\ Len(usages) = 1 /\ usages[1] = [user |-> u, copies |-> 100, stencils |-> 12]
    /\ DebitedCharges(u, Len(creditTx)) = 0
    /\ lastSeen[u] = NoRow

\* C35: for every user with stored totals the cumulative billed copies
\* and stencils are at least the last-seen copies and stencils; so an
\* ingestion that detects a reset finds no unbilled remainder and bills
\* exactly the counters the report carries.
C35_BilledCoversLastSeen ==
  /\ \A u \in Users :
        /\ SeenValue(lastSeen[u], "billedCopies") >= SeenValue(lastSeen[u], "copies")
        /\ SeenValue(lastSeen[u], "billedStencils") >= SeenValue(lastSeen[u], "stencils")
  /\ \A w \in Workers :
        ( /\ job[w].kind = "ingest"
          /\ \/ job[w].copies < SeenValue(job[w].seen, "copies")
             \/ job[w].stencils < SeenValue(job[w].seen, "stencils") )
        => /\ SeenValue(job[w].seen, "copies") <= SeenValue(job[w].seen, "billedCopies")
           /\ SeenValue(job[w].seen, "stencils") <= SeenValue(job[w].seen, "billedStencils")
           /\ job[w].billCopies = job[w].copies
           /\ job[w].billStencils = job[w].stencils

\* after reports of 100 and then 40 copies the second was billed as a
\* reset: 140 copies are billed in all, 40 were last seen
C35_ResetBilledReportedValue ==
  \E u \in Users :
    /\ job[1].pc = "done" /\ job[1].kind = "ingest" /\ job[1].user = u /\ job[1].res = "ok"
    /\ SeenValue(job[1].seen, "copies") = 100 /\ job[1].copies = 40 /\ job[1].billCopies = 40
    /\ SeenValue(lastSeen[u], "copies") = 40
    /\ SeenValue(lastSeen[u], "billedCopies") = 140

(* ----------------------- the ledger and the gate ----------------------- *)
\* C36: starting from an empty ledger no user's balance is negative in
\* any reachable state, and neither booking entry point ever answers 402.
C36_BalanceNeverNegative ==
  /\ \A u \in Users : balance[u] = NoRow \/ balance[u][1] >= 0
  /\ \A p \in Procs : proc[p].res # "402" /\ ~proc[p].negbal

\* a usage charge above the balance of a user was refused, and a booking
\* request of that user then passed the balance check and was booked
C36_BookedAfterRefusedCharge ==
  /\ lastCredit.raised /\ lastCredit.kind = "usage_charge"
  /\ balance[lastCredit.user] # NoRow
  /\ proc[1].pc = "done" /\ proc[1].res = "ok"
  /\ bookings # <<>> /\ bookings[Len(bookings)].user = lastCredit.user

(* --------------------------- the initial replay ------------------------ *)
\* C37: a connecting subscriber is sent addAccess only for bookings that
\* are confirmed at that time: the bookings behind the messages of a
\* replay are the future bookings that were confirmed when it was sent.
C37_ReplayOnlyConfirmed ==
  reply.query = "replay" => reply.rows = reply.confirmed

\* the only booking was cancelled before the subscriber connected, and the
\* replay carries an addAccess for it
C37_CancelledBookingReplayed ==
  /\ reply.query = "replay"
  /\ Len(bookings) = 1 /\ bookings[1].status = "cancelled"
  /\ Len(sent) = 2 /\ sent[2].kind = "removeAccess"
  /\ reply.confirmed = {}
  /\ reply.messages = { AddAccess(bookings[1].user, bookings[1].lo, bookings[1].hi) }

\* C38: no step of a redemption, of a custom booking or of a cancellation
\* inserts a credit transaction or changes a credit balance.
C38_BookingLeavesLedgerAlone ==
  [][(\E p \in Procs : proc'[p] # proc[p])
        => creditTx' = creditTx /\ balance' = balance]_vars

\* a user who purchased credit once redeemed an offer and cancelled the
\* booking: the purchase is still the only row of the ledger
C38_BookedAndCancelledFreeOfCharge ==
  /\ proc[1].pc = "done" /\ proc[1].kind = "cancel" /\ proc[1].res = "true"
  /\ Len(bookings) = 1 /\ bookings[1].user = 1 /\ bookings[1].status = "cancelled"
  /\ \E o \in offers : o.redeemed
  /\ Len(creditTx) = 1 /\ creditTx[1].kind = "purchase" /\ creditTx[1].user = 1
  /\ balance[1] = Row(creditTx[1].amount)

(* ------------------------ booking and cancelling ----------------------- *)
\* 1 for a bucket of the window that the slot of booking b overlaps on
\* b's unit and that the query can report, 0 for every other bucket
Share(b, w, g, u) ==
  IF /\ u = b.unit
     /\ Overlaps(b.lo, b.hi, g, g + BucketMs)
     /\ g \in Buckets(w[1], w[2])
     /\ Usable(g, u)
  THEN 1 ELSE 0

\* C39: cancelling a booking gives back to the capacity query what the
\* booking took: the insert of a booking lowers the result by one for the
\* buckets of its unit that its slot overlaps, its cancellation raises the
\* result by one for the same buckets, and both leave the result for every
\* other bucket, unit and window as it was.
C39_CancelRestoresCapacity ==
  [][ /\ Len(bookings') = Len(bookings) + 1
         => \A w \in CapacityWindows : \A g \in Buckets(w[1], w[2]), u \in Units :
              Reported(w, g, u)' = Reported(w, g, u) - Share(bookings'[Len(bookings')], w, g, u)
      /\ \A i \in BookingIds :
           (bookings[i].status = "confirmed" /\ bookings'[i].status = "cancelled")
           => \A w \in CapacityWindows : \A g \in Buckets(w[1], w[2]), u \in Units :
                Reported(w, g, u)' = Reported(w, g, u) + Share(bookings[i], w, g, u) ]_vars

\* the first bucket of unit 1 was booked and the booking cancelled: the
\* query over both buckets reports unit 1 with its whole capacity again
C39_FullCapacityAfterCancel ==
  /\ FreshCapacityReply
  /\ reply.lo = BucketMs /\ reply.hi = 3 * BucketMs
  /\ proc[1].pc = "done" /\ proc[1].kind = "cancel" /\ proc[1].res = "true"
  /\ Len(bookings) = 1 /\ bookings[1].unit = 1 /\ bookings[1].status = "cancelled"
  /\ bookings[1].lo = BucketMs
  /\ [bucket |-> BucketMs, unit |-> 1, remaining |-> UnitCapacity(1)] \in reply.rows
====
